---- MODULE Spec2Model ----
(***************************************************************************)
(* use-good-hooks: the bounded undo/redo history engine (useHistoryState), *)
(* its reducer, its facade and the debounced commit scheduler it uses; the *)
(* function wrappers useDebounceFn and useThrottleFn on their own; and the *)
(* global store of createGlobalState.                                      *)
(***************************************************************************)
EXTENDS Integers, Sequences, FiniteSets, Bags, TLC

VARIABLES
    options,          \* options given to useHistoryState (fixed for the instance)
    initialStateRef,  \* useRef(initialState)
    heap,             \* the objects the caller holds: reference -> content
    mounted,          \* the component that owns the hook is mounted
    state,            \* the reducer state: future, past, paused, present
    view,             \* what the last committed render closed over
    needsRender,      \* the reducer returned a new object since the last render
    timers,           \* pending calls of the debounce instances, earliest deadline first
    last,             \* the last facade call or timer step and its onChange calls
    setRun,           \* history variable: values of the immediate set calls so far
    pauseRun,         \* history variable: the pause(); set..; resume() in progress
    \* useDebounceFn / useThrottleFn rendered by a component of their own
    now,              \* the host's clock, in ticks
    policy,           \* which hook the component renders: "debounce" or "throttle"
    fn,               \* the function passed to the hook by the last committed render
    fnRef,            \* fnRef.current
    held,             \* the functions the hook has returned to the caller so far
    lodash,           \* the closure state of each lodash debounce/throttle instance
    hostTimers,       \* the pending setTimeout callbacks: a bag of [inst, at]
    ran,              \* the last call on a wrapper (args: the arguments passed, or
                      \* those cancel dropped) and the calls of fn it made
    \* createGlobalState
    globalState,      \* the closure's state
    subscribers,      \* the closure's subscribers, in insertion order
    notified,         \* the last call on the store and the callbacks it called
    components,       \* the components that render useGlobalState on the store
    \* useTemporaryState
    temporary         \* the component that renders useTemporaryState

historyVars == <<options, initialStateRef, heap, mounted, state, view, needsRender,
                 timers, last, setRun, pauseRun>>

fnVars == <<now, policy, fn, fnRef, held, lodash, hostTimers, ran>>

storeVars == <<globalState, subscribers, notified, components>>

tempVars == <<temporary>>

vars == <<historyVars, fnVars, storeVars, tempVars>>

(***************************************************************************)
(* Bounds.                                                                 *)
(***************************************************************************)
MaxCap == 2

\* Stores without a capacity are explored up to this many history entries.
MaxHist == MaxCap

\* maxCapacity not given (undefined).
Undefined == -1

(***************************************************************************)
(* Values.  A value of type T is null or an object {x: n}.  An object the  *)
(* caller holds has a reference ref > 0 and its content is in the heap; an *)
(* object made by cloneDeep is held by the store alone: ref = 0 and the    *)
(* content is carried in x.  A cyclic object (d = {}; d.self = d) has no   *)
(* serialization: JSON.stringify throws a TypeError on it.                 *)
(***************************************************************************)
Refs == {1, 2, 3}

Null == [k |-> "null", ref |-> 0, x |-> 0]

Obj(r) == [k |-> "obj", ref |-> r, x |-> 0]

\* What the caller can pass: null, a = {x:1}, b = {x:1}, c = {x:2}.
Val == {Null} \cup {Obj(r) : r \in Refs}

\* The cyclic object d of the caller.
Cyclic == [k |-> "cyclic", ref |-> 4, x |-> 0]

\* What JSON.stringify does on a cyclic object: it throws this.
TypeError == "TypeError: Converting circular structure to JSON"

InitialHeap == [r \in Refs |-> IF r = 3 THEN 2 ELSE 1]

contentOf(v) == IF v.ref = 0 THEN v.x ELSE heap[v.ref]

JSONstringify(v) ==
    CASE v.k = "null" -> "null"
      [] v.k = "cyclic" -> TypeError
      [] OTHER -> "{\"x\":" \o ToString(contentOf(v)) \o "}"

cloneDeep(v) ==
    CASE v.k = "null" -> v
      [] v.k = "cyclic" -> [v EXCEPT !.ref = 0]
      [] OTHER -> [k |-> "obj", ref |-> 0, x |-> contentOf(v)]

\* a === b: null is identical to null, an object only to itself.
StrictEquals(a, b) ==
    /\ a.k = b.k
    /\ a.k # "null" => (a.ref = b.ref /\ a.ref # 0)

\* Mutant of cloneValue: the value is shared in both modes.
cloneValue_shares(value, immutable) == value

cloneValue(value, immutable) == IF immutable THEN value ELSE cloneDeep(value)

\* Mutant of valuesEqual: identity is compared in both modes.
valuesEqual_identityOnly(a, b, immutable) == StrictEquals(a, b)

\* Mutant of valuesEqual: serializations are compared in both modes.
valuesEqual_structuralOnly(a, b, immutable) == JSONstringify(a) = JSONstringify(b)

valuesEqual(a, b, immutable) ==
    IF immutable THEN StrictEquals(a, b) ELSE JSONstringify(a) = JSONstringify(b)

isNil(x) == x = Undefined

size(s) == Len(s)

\* Array.prototype.slice(from) on a 0-based array.
sliceFrom(s, from) == SubSeq(s, from + 1, Len(s))

\* Array.prototype.slice(0, to).
sliceTo(s, to) == SubSeq(s, 1, to)

(***************************************************************************)
(* historyReducer.  Each branch returns the new state, the onChange calls  *)
(* it made, and whether the returned state is a new object (fresh) or the  *)
(* state it was given.                                                     *)
(***************************************************************************)
Call(kind, st) == <<[action |-> kind, state |-> st.present]>>

\* Mutant of reducePAUSE: PAUSE toggles the flag.
reducePAUSE_toggles(st) ==
    [state |-> [st EXCEPT !.paused = ~@], onChange |-> <<>>, fresh |-> TRUE]

reducePAUSE(st) ==
    [state |-> [st EXCEPT !.paused = TRUE], onChange |-> <<>>, fresh |-> TRUE]

reduceRESUME(st) ==
    [state |-> [st EXCEPT !.paused = FALSE], onChange |-> <<>>, fresh |-> TRUE]

\* Mutant of reduceUNDO: the old present goes to the end of future.
reduceUNDO_appendsToFuture(st, immutable) ==
    IF size(st.past) = 0
    THEN [state |-> st, onChange |-> <<>>, fresh |-> FALSE]
    ELSE LET previous == st.past[size(st.past)]
             newPast == sliceTo(st.past, size(st.past) - 1)
             newState == [future |-> Append(st.future, cloneValue(st.present, immutable)),
                          past |-> newPast,
                          paused |-> st.paused,
                          present |-> cloneValue(previous, immutable)]
         IN [state |-> newState, onChange |-> Call("UNDO", newState), fresh |-> TRUE]

\* Mutant of reduceUNDO: the old present is not kept for redo.
reduceUNDO_dropsPresent(st, immutable) ==
    IF size(st.past) = 0
    THEN [state |-> st, onChange |-> <<>>, fresh |-> FALSE]
    ELSE LET previous == st.past[size(st.past)]
             newPast == sliceTo(st.past, size(st.past) - 1)
             newState == [future |-> st.future,
                          past |-> newPast,
                          paused |-> st.paused,
                          present |-> cloneValue(previous, immutable)]
         IN [state |-> newState, onChange |-> Call("UNDO", newState), fresh |-> TRUE]

reduceUNDO(st, immutable) ==
    IF size(st.past) = 0
    THEN [state |-> st, onChange |-> <<>>, fresh |-> FALSE]
    ELSE LET previous == st.past[size(st.past)]
             newPast == sliceTo(st.past, size(st.past) - 1)
             newState == [future |-> <<cloneValue(st.present, immutable)>> \o st.future,
                          past |-> newPast,
                          paused |-> st.paused,
                          present |-> cloneValue(previous, immutable)]
         IN [state |-> newState, onChange |-> Call("UNDO", newState), fresh |-> TRUE]

\* Mutant of reduceREDO: the old present goes to the front of past.
reduceREDO_prepends(st, immutable) ==
    IF size(st.future) = 0
    THEN [state |-> st, onChange |-> <<>>, fresh |-> FALSE]
    ELSE LET next == st.future[1]
             newFuture == sliceFrom(st.future, 1)
             newState == [future |-> newFuture,
                          past |-> <<cloneValue(st.present, immutable)>> \o st.past,
                          paused |-> st.paused,
                          present |-> cloneValue(next, immutable)]
         IN [state |-> newState, onChange |-> Call("REDO", newState), fresh |-> TRUE]

\* Mutant of reduceREDO: the entry that becomes present stays in future.
reduceREDO_keepsFuture(st, immutable) ==
    IF size(st.future) = 0
    THEN [state |-> st, onChange |-> <<>>, fresh |-> FALSE]
    ELSE LET next == st.future[1]
             newState == [future |-> st.future,
                          past |-> Append(st.past, cloneValue(st.present, immutable)),
                          paused |-> st.paused,
                          present |-> cloneValue(next, immutable)]
         IN [state |-> newState, onChange |-> Call("REDO", newState), fresh |-> TRUE]

reduceREDO(st, immutable) ==
    IF size(st.future) = 0
    THEN [state |-> st, onChange |-> <<>>, fresh |-> FALSE]
    ELSE LET next == st.future[1]
             newFuture == sliceFrom(st.future, 1)
             newState == [future |-> newFuture,
                          past |-> Append(st.past, cloneValue(st.present, immutable)),
                          paused |-> st.paused,
                          present |-> cloneValue(next, immutable)]
         IN [state |-> newState, onChange |-> Call("REDO", newState), fresh |-> TRUE]

\* Mutant of reduceSETpaused: the paused SET is tracked like any other.
reduceSETpaused_tracksHistory(st, newPresent, immutable) ==
    LET newState == [st EXCEPT !.present = cloneValue(newPresent, immutable),
                               !.past = Append(@, cloneValue(st.present, immutable))]
    IN [state |-> newState, onChange |-> Call("SET", newState), fresh |-> TRUE]

\* Mutant of reduceSETpaused: a paused SET notifies nobody.
reduceSETpaused_silent(st, newPresent, immutable) ==
    LET newState == [st EXCEPT !.present = cloneValue(newPresent, immutable)]
    IN [state |-> newState, onChange |-> <<>>, fresh |-> TRUE]

\* Mutant of reduceSETpaused: the paused SET drops the redo path, as a
\* tracked SET does.
reduceSETpaused_clearsFuture(st, newPresent, immutable) ==
    LET newState == [st EXCEPT !.present = cloneValue(newPresent, immutable),
                               !.future = <<>>]
    IN [state |-> newState, onChange |-> Call("SET", newState), fresh |-> TRUE]

\* SET while paused: present alone changes.
reduceSETpaused(st, newPresent, immutable) ==
    LET newState == [st EXCEPT !.present = cloneValue(newPresent, immutable)]
    IN [state |-> newState, onChange |-> Call("SET", newState), fresh |-> TRUE]

\* "Create new past array with capacity limit": the present is appended
\* unless it is null.
pushPresent(st, immutable) ==
    IF st.present # Null
    THEN Append(st.past, cloneValue(st.present, immutable))
    ELSE st.past

\* Mutant of evictOldest: the comparison is off by one, so one entry too
\* many survives.
evictOldest_offByOne(newPast, maxCapacity) ==
    IF ~isNil(maxCapacity) /\ maxCapacity > 0 /\ size(newPast) > maxCapacity + 1
    THEN sliceFrom(newPast, size(newPast) - maxCapacity)
    ELSE newPast

\* "Remove oldest entries if max capacity is reached".
evictOldest(newPast, maxCapacity) ==
    IF ~isNil(maxCapacity) /\ maxCapacity > 0 /\ size(newPast) > maxCapacity
    THEN sliceFrom(newPast, size(newPast) - maxCapacity)
    ELSE newPast

\* Mutant of reduceSETtracked: the redo path survives a new change.
reduceSETtracked_keepsFuture(st, newPresent, immutable, maxCapacity) ==
    LET newState == [future |-> st.future,
                     past |-> evictOldest(pushPresent(st, immutable), maxCapacity),
                     paused |-> st.paused,
                     present |-> cloneValue(newPresent, immutable)]
    IN [state |-> newState, onChange |-> Call("SET", newState), fresh |-> TRUE]

reduceSETtracked(st, newPresent, immutable, maxCapacity) ==
    LET newState == [future |-> <<>>,
                     past |-> evictOldest(pushPresent(st, immutable), maxCapacity),
                     paused |-> st.paused,
                     present |-> cloneValue(newPresent, immutable)]
    IN [state |-> newState, onChange |-> Call("SET", newState), fresh |-> TRUE]

reduceSET(st, newPresent, immutable, maxCapacity) ==
    IF valuesEqual(newPresent, st.present, immutable)
    THEN [state |-> st, onChange |-> <<>>, fresh |-> FALSE]
    ELSE IF st.paused
         THEN reduceSETpaused(st, newPresent, immutable)
         ELSE reduceSETtracked(st, newPresent, immutable, maxCapacity)

\* Mutant of reduceCLEAR: CLEAR starts from the initial reducer state, not
\* paused.
reduceCLEAR_resumes(st, initialState, immutable) ==
    LET newState == [future |-> <<>>,
                     past |-> <<>>,
                     paused |-> FALSE,
                     present |-> cloneValue(initialState, immutable)]
    IN [state |-> newState, onChange |-> Call("CLEAR", newState), fresh |-> TRUE]

reduceCLEAR(st, initialState, immutable) ==
    LET newState == [future |-> <<>>,
                     past |-> <<>>,
                     paused |-> st.paused,
                     present |-> cloneValue(initialState, immutable)]
    IN [state |-> newState, onChange |-> Call("CLEAR", newState), fresh |-> TRUE]

historyReducer(action, st) ==
    CASE action.type = "PAUSE" -> reducePAUSE(st)
      [] action.type = "RESUME" -> reduceRESUME(st)
      [] action.type = "UNDO" -> reduceUNDO(st, options.immutable)
      [] action.type = "REDO" -> reduceREDO(st, options.immutable)
      [] action.type = "SET" ->
            reduceSET(st, action.newPresent, options.immutable, options.maxCapacity)
      [] action.type = "CLEAR" ->
            reduceCLEAR(st, action.initialState, options.immutable)

(***************************************************************************)
(* useHistoryState.                                                        *)
(***************************************************************************)
\* The two lodash debounce instances of useDebounceFn: the one made by
\* useRef at the first render and the one the mount effect installs.
FirstRenderFn == 0

MountEffectFn == 1

Debounced == {FirstRenderFn, MountEffectFn}

\* The paused option: not given (<<>>), true or false.
PausedOptions == {<<>>, <<TRUE>>, <<FALSE>>}

\* The capacities explored together with debounceTime.
DebounceCapacities == {1}

\* The configurations explored: every equality mode and capacity without
\* debounceTime (0: not given), and the default equality mode with a
\* debounceTime of 500 ms and the smallest capacity.
Options ==
    [immutable : BOOLEAN,
     maxCapacity : {Undefined} \cup (1..MaxCap),
     debounceTime : {0}]
    \cup
    [immutable : {FALSE},
     maxCapacity : DebounceCapacities,
     debounceTime : {500}]

\* The initial values explored: null and the object a.
InitialStates == {Null, Obj(1)}

canRedo == size(state.future) # 0

\* Mutant of canUndo: one entry of past is not enough.
canUndo_needsTwo == size(state.past) > 1

canUndo == size(state.past) # 0

\* Exploration bound for stores that have no capacity.
CanGrow ==
    \/ options.maxCapacity > 0
    \/ size(state.past) + size(state.future) < MaxHist

NoRun == [ok |-> FALSE, vs |-> <<>>]

NoPause == [phase |-> "off", past |-> <<>>, b |-> <<>>]

\* An immediate SET extends the run of set calls made since creation.
SetRunAfterSet(v) ==
    IF setRun.ok /\ Len(setRun.vs) <= MaxCap
    THEN [setRun EXCEPT !.vs = Append(@, v)]
    ELSE NoRun

\* An immediate SET between pause() and resume() is remembered.
PauseRunAfterSet(v) ==
    IF pauseRun.phase = "paused" THEN [pauseRun EXCEPT !.b = <<v>>] ELSE NoPause

\* options?.paused ?? false
pausedOrFalse(paused) == IF paused = <<>> THEN FALSE ELSE paused[1]

\* Mutant of initialArg: a store always starts tracking.
initialArg_neverPaused(immutable, paused, initialState) ==
    [future |-> <<>>,
     past |-> <<>>,
     paused |-> FALSE,
     present |-> cloneValue(initialState, immutable)]

\* The initial state given to useReducer.
initialArg(immutable, paused, initialState) ==
    [future |-> <<>>,
     past |-> <<>>,
     paused |-> pausedOrFalse(paused),
     present |-> cloneValue(initialState, immutable)]

\* No component renders useDebounceFn or useThrottleFn on its own.
NoFnHook ==
    /\ now = 0
    /\ policy = "none"
    /\ fn = 0
    /\ fnRef = 0
    /\ held = {}
    /\ lodash = <<>>
    /\ hostTimers = EmptyBag
    /\ ran = <<>>

\* No store was made by createGlobalState.
NoGlobalState ==
    /\ globalState = <<>>
    /\ subscribers = <<>>
    /\ notified = <<>>
    /\ components = <<>>

\* No component renders useTemporaryState.
NoTemporaryState == temporary = <<>>

\* No component renders useHistoryState.
NoHistoryState ==
    /\ options = <<>>
    /\ initialStateRef = <<>>
    /\ heap = InitialHeap
    /\ mounted = FALSE
    /\ state = <<>>
    /\ view = <<>>
    /\ needsRender = FALSE
    /\ timers = <<>>
    /\ last = <<>>
    /\ setRun = NoRun
    /\ pauseRun = NoPause

\* useHistoryState(initialState, options) with options among configs: the
\* state after the first render.
Created(configs) ==
    /\ options \in configs
    /\ initialStateRef \in InitialStates
    /\ heap = InitialHeap
    /\ mounted = TRUE
    /\ \E paused \in PausedOptions :
          /\ state = initialArg(options.immutable, paused, initialStateRef)
          /\ last = [op |-> "create", arg |-> paused, onChange |-> <<>>, sizes |-> <<0, 0>>,
                    error |-> <<>>]
    /\ view = [canUndo |-> FALSE, canRedo |-> FALSE, setDebounced |-> FirstRenderFn]
    /\ needsRender = FALSE
    /\ timers = <<>>
    /\ setRun = [ok |-> ~state.paused, vs |-> <<>>]
    /\ pauseRun = NoPause
    /\ NoFnHook
    /\ NoGlobalState
    /\ NoTemporaryState

Init == Created(Options)

\* The sizes of past and future a call is made on.
Sizes == <<size(state.past), size(state.future)>>

\* The onChange given in the options throws when it is called.
onChangeThrows == "onChange" \in DOMAIN options /\ options.onChange = "throws"

\* Mutant of thrownBy: the equality check of a value that cannot be
\* serialized throws nothing.
thrownBy_serializesAnything(action, st) ==
    IF onChangeThrows /\ historyReducer(action, st).onChange # <<>>
    THEN <<"onChange">>
    ELSE <<>>

\* The error historyReducer throws on action, if it throws: the SET branch
\* starts with valuesEqual, whose JSON.stringify calls throw on a cyclic
\* value, and every branch calls onChange without a try.
thrownBy(action, st) ==
    IF /\ action.type = "SET"
       /\ ~options.immutable
       /\ TypeError \in {JSONstringify(action.newPresent), JSONstringify(st.present)}
    THEN <<TypeError>>
    ELSE IF onChangeThrows /\ historyReducer(action, st).onChange # <<>>
         THEN <<"onChange">>
         ELSE <<>>

\* dispatch(action): the reducer runs on the current state; React renders
\* again only when it returned a new object.  An update dispatched to a
\* component that is no longer mounted is discarded: the reducer does not run.
\* When the reducer throws, the state is not replaced, the error leaves the
\* render that applied the action, and React unmounts the component.
dispatch(op, action) ==
    LET error == IF mounted THEN thrownBy(action, state) ELSE <<>>
        r == CASE ~mounted -> [state |-> state, onChange |-> <<>>, fresh |-> FALSE]
               [] mounted /\ error = <<>> -> historyReducer(action, state)
               [] mounted /\ error = <<TypeError>> ->
                     [state |-> state, onChange |-> <<>>, fresh |-> FALSE]
               [] OTHER ->
                     [state |-> state,
                      onChange |-> historyReducer(action, state).onChange,
                      fresh |-> FALSE]
    IN /\ state' = r.state
       /\ needsRender' = (needsRender \/ r.fresh)
       /\ mounted' = (mounted /\ error = <<>>)
       /\ last' = [op |-> op,
                   arg |-> IF action.type = "SET" THEN <<action.newPresent>> ELSE <<>>,
                   onChange |-> r.onChange,
                   sizes |-> Sizes,
                   error |-> error]

\* The pending calls ts after a dispatch: when the component was unmounted,
\* the cleanup of useDebounceFn has cancelled the instance of the mount
\* effect.
Surviving(ts) ==
    IF mounted' THEN ts ELSE SelectSeq(ts, LAMBDA t : t.fn # MountEffectFn)

\* A render commits: canUndo, canRedo and set are recomputed; from the
\* second render on useDebounceFn returns the instance of the mount effect.
Render ==
    /\ needsRender
    /\ needsRender' = FALSE
    /\ view' = [canUndo |-> canUndo, canRedo |-> canRedo, setDebounced |-> MountEffectFn]
    /\ UNCHANGED <<fnVars, storeVars, tempVars, options, initialStateRef, heap, mounted, state, timers, last, setRun, pauseRun>>

\* Mutant of setDirect: the commit that was pending is cancelled.
setDirect_cancelsPending(newPresent) ==
    /\ CanGrow
    /\ dispatch("setDirect", [type |-> "SET", newPresent |-> newPresent])
    /\ timers' = <<>>
    /\ setRun' = SetRunAfterSet(newPresent)
    /\ pauseRun' = PauseRunAfterSet(newPresent)
    /\ UNCHANGED <<fnVars, storeVars, tempVars, options, initialStateRef, heap, view>>

setDirect(newPresent) ==
    /\ CanGrow
    /\ dispatch("setDirect", [type |-> "SET", newPresent |-> newPresent])
    /\ setRun' = SetRunAfterSet(newPresent)
    /\ pauseRun' = PauseRunAfterSet(newPresent)
    /\ timers' = Surviving(timers)
    /\ UNCHANGED <<fnVars, storeVars, tempVars, options, initialStateRef, heap, view>>

\* The pending calls of the instances other than d.
Without(d) == SelectSeq(timers, LAMBDA t : t.fn # d)

\* set with debounceTime: lodash debounce keeps the last arguments and
\* restarts its timer.  Both instances have the same delay, so the instance
\* called last has the latest deadline.
setDebounced(newPresent) ==
    /\ options.debounceTime # 0
    /\ CanGrow
    /\ timers' = Append(Without(view.setDebounced),
                        [fn |-> view.setDebounced, args |-> newPresent])
    /\ last' = [op |-> "set", arg |-> <<newPresent>>, onChange |-> <<>>, sizes |-> Sizes,
                error |-> <<>>]
    /\ setRun' = NoRun
    /\ pauseRun' = NoPause
    /\ UNCHANGED <<fnVars, storeVars, tempVars, options, initialStateRef, heap, mounted, state, view, needsRender>>

\* set without debounceTime is setDirect.
setImmediate(newPresent) ==
    /\ options.debounceTime = 0
    /\ CanGrow
    /\ dispatch("set", [type |-> "SET", newPresent |-> newPresent])
    /\ setRun' = SetRunAfterSet(newPresent)
    /\ pauseRun' = PauseRunAfterSet(newPresent)
    /\ timers' = Surviving(timers)
    /\ UNCHANGED <<fnVars, storeVars, tempVars, options, initialStateRef, heap, view>>

set(newPresent) == setDebounced(newPresent) \/ setImmediate(newPresent)

\* The timer of a debounce instance elapses: the trailing call is made with
\* the last arguments.
TimerFires(d) ==
    /\ timers # <<>>
    /\ Head(timers).fn = d
    /\ CanGrow
    /\ dispatch("timer", [type |-> "SET", newPresent |-> Head(timers).args])
    /\ timers' = Surviving(Tail(timers))
    /\ setRun' = NoRun
    /\ pauseRun' = NoPause
    /\ UNCHANGED <<fnVars, storeVars, tempVars, options, initialStateRef, heap, view>>

undo ==
    /\ view.canUndo
    /\ dispatch("undo", [type |-> "UNDO"])
    /\ setRun' = NoRun
    /\ pauseRun' = NoPause
    /\ timers' = Surviving(timers)
    /\ UNCHANGED <<fnVars, storeVars, tempVars, options, initialStateRef, heap, view>>

redo ==
    /\ view.canRedo
    /\ dispatch("redo", [type |-> "REDO"])
    /\ setRun' = NoRun
    /\ pauseRun' = NoPause
    /\ timers' = Surviving(timers)
    /\ UNCHANGED <<fnVars, storeVars, tempVars, options, initialStateRef, heap, view>>

clear ==
    /\ dispatch("clear", [type |-> "CLEAR", initialState |-> initialStateRef])
    /\ setRun' = NoRun
    /\ pauseRun' = NoPause
    /\ timers' = Surviving(timers)
    /\ UNCHANGED <<fnVars, storeVars, tempVars, options, initialStateRef, heap, view>>

pause ==
    /\ dispatch("pause", [type |-> "PAUSE"])
    /\ setRun' = NoRun
    /\ pauseRun' = [phase |-> "paused", past |-> state.past, b |-> <<>>]
    /\ timers' = Surviving(timers)
    /\ UNCHANGED <<fnVars, storeVars, tempVars, options, initialStateRef, heap, view>>

resume ==
    /\ dispatch("resume", [type |-> "RESUME"])
    /\ setRun' = NoRun
    /\ pauseRun' = IF pauseRun.phase = "paused"
                   THEN [pauseRun EXCEPT !.phase = "resumed"]
                   ELSE NoPause
    /\ timers' = Surviving(timers)
    /\ UNCHANGED <<fnVars, storeVars, tempVars, options, initialStateRef, heap, view>>

Next ==
    \/ Render
    \/ \E v \in Val : setDirect(v)
    \/ \E v \in Val : set(v)
    \/ \E d \in Debounced : TimerFires(d)
    \/ undo
    \/ redo
    \/ clear
    \/ pause
    \/ resume

Spec == Init /\ [][Next]_vars

(***************************************************************************)
(* The caller's objects.  The caller keeps the objects it passed as the    *)
(* initial value or to set / setDirect and may assign their field.         *)
(***************************************************************************)
Contents == {1, 2}

\* obj.x = n on an object the caller holds.
Mutate(r, n) ==
    /\ heap[r] # n
    /\ heap' = [heap EXCEPT ![r] = n]
    /\ last' = [op |-> "mutate", arg |-> <<Obj(r)>>, onChange |-> <<>>, sizes |-> Sizes,
                error |-> <<>>]
    /\ setRun' = NoRun
    /\ pauseRun' = NoPause
    /\ UNCHANGED <<fnVars, storeVars, tempVars, options, initialStateRef, mounted, state, view, needsRender, timers>>

\* Stores without debounceTime, of the smallest capacity.
IsolationOptions ==
    [immutable : BOOLEAN,
     maxCapacity : {1},
     debounceTime : {0}]

InitIsolation == Created(IsolationOptions)

NextIsolation ==
    \/ Render
    \/ \E v \in Val : setDirect(v)
    \/ \E v \in Val : setImmediate(v)
    \/ undo
    \/ redo
    \/ clear
    \/ pause
    \/ resume
    \/ \E r \in Refs, n \in Contents : Mutate(r, n)

SpecIsolation == InitIsolation /\ [][NextIsolation]_vars

(***************************************************************************)
(* Teardown.  The cleanup of the effect of useDebounceFn cancels the       *)
(* instance debouncedFn.current holds, which is the one the mount effect   *)
(* installed.                                                              *)
(***************************************************************************)
unmount ==
    /\ mounted
    /\ mounted' = FALSE
    /\ timers' = Without(MountEffectFn)
    /\ last' = [op |-> "unmount", arg |-> <<>>, onChange |-> <<>>, sizes |-> Sizes,
                error |-> <<>>]
    /\ setRun' = NoRun
    /\ pauseRun' = NoPause
    /\ UNCHANGED <<fnVars, storeVars, tempVars, options, initialStateRef, heap, state, view, needsRender>>

\* Stores with debounceTime and room for two past entries, and one store
\* without debounceTime.
SchedulerOptions ==
    [immutable : {FALSE},
     maxCapacity : {2},
     debounceTime : {500}]
    \cup
    [immutable : {FALSE},
     maxCapacity : {1},
     debounceTime : {0}]

InitScheduler == Created(SchedulerOptions)

\* The facade is used while the component is mounted; the timers of lodash
\* run on after it is gone.
NextScheduler ==
    \/ mounted /\ Render
    \/ mounted /\ \E v \in Val : setDirect(v)
    \/ mounted /\ \E v \in Val : set(v)
    \/ \E d \in Debounced : TimerFires(d)
    \/ mounted /\ undo
    \/ mounted /\ redo
    \/ mounted /\ clear
    \/ mounted /\ pause
    \/ mounted /\ resume
    \/ unmount

SpecScheduler == InitScheduler /\ [][NextScheduler]_vars

(***************************************************************************)
(* Configurations the contract calls invalid.  useHistoryState takes       *)
(* debounceSettings, debounceTime, immutable, maxCapacity, onChange and    *)
(* paused from its options and reads no other field; maxCapacity is used   *)
(* in the SET branch alone, under !isNil(maxCapacity) && maxCapacity > 0.  *)
(***************************************************************************)
\* A valid configuration, one with maxCapacity: 0, and one with both
\* debounceTime and throttleTime.
ConfigurationOptions ==
    {[immutable |-> FALSE, maxCapacity |-> 1, debounceTime |-> 0, throttleTime |-> 0],
     [immutable |-> FALSE, maxCapacity |-> 0, debounceTime |-> 0, throttleTime |-> 0],
     [immutable |-> FALSE, maxCapacity |-> 1, debounceTime |-> 500, throttleTime |-> 500]}

InitConfiguration == Created(ConfigurationOptions)

SpecConfiguration == InitConfiguration /\ [][Next]_vars

(***************************************************************************)
(* Faults: a value that cannot be serialized, an onChange that throws.     *)
(***************************************************************************)
\* Stores in both equality modes, with and without debounceTime, whose
\* onChange returns or throws.
FaultOptions ==
    [immutable : BOOLEAN,
     maxCapacity : {1},
     debounceTime : {0},
     onChange : {"returns", "throws"}]
    \cup
    [immutable : {FALSE},
     maxCapacity : {1},
     debounceTime : {500},
     onChange : {"returns", "throws"}]

\* What the caller passes to set and setDirect: an object or the cyclic d.
FaultVal == {Obj(1), Obj(3), Cyclic}

InitFaults == Created(FaultOptions)

NextFaults ==
    \/ mounted /\ Render
    \/ mounted /\ \E v \in FaultVal : setDirect(v)
    \/ mounted /\ \E v \in FaultVal : set(v)
    \/ \E d \in Debounced : TimerFires(d)
    \/ mounted /\ undo
    \/ mounted /\ redo
    \/ mounted /\ clear
    \/ mounted /\ pause
    \/ mounted /\ resume
    \/ unmount

SpecFaults == InitFaults /\ [][NextFaults]_vars

(***************************************************************************)
(* Calls the facade drops.  undo and redo dispatch only under the canUndo  *)
(* and canRedo their render computed; a call made while that is false      *)
(* returns without a dispatch.                                             *)
(***************************************************************************)
\* undo() while the canUndo of the last render is false.
undoSkipped ==
    /\ ~view.canUndo
    /\ last' = [op |-> "undoSkipped", arg |-> <<>>, onChange |-> <<>>, sizes |-> Sizes,
                error |-> <<>>]
    /\ setRun' = NoRun
    /\ pauseRun' = NoPause
    /\ UNCHANGED <<fnVars, storeVars, tempVars, options, initialStateRef, heap, mounted, state, view, needsRender, timers>>

\* redo() while the canRedo of the last render is false.
redoSkipped ==
    /\ ~view.canRedo
    /\ last' = [op |-> "redoSkipped", arg |-> <<>>, onChange |-> <<>>, sizes |-> Sizes,
                error |-> <<>>]
    /\ setRun' = NoRun
    /\ pauseRun' = NoPause
    /\ UNCHANGED <<fnVars, storeVars, tempVars, options, initialStateRef, heap, mounted, state, view, needsRender, timers>>

\* Stores without debounceTime, with room for two past entries.
BatchOptions ==
    [immutable : BOOLEAN,
     maxCapacity : {2},
     debounceTime : {0}]

InitBatch == Created(BatchOptions)

NextBatch ==
    \/ Render
    \/ \E v \in Val : setDirect(v)
    \/ \E v \in Val : setImmediate(v)
    \/ undo
    \/ redo
    \/ undoSkipped
    \/ redoSkipped
    \/ clear
    \/ pause
    \/ resume

SpecBatch == InitBatch /\ [][NextBatch]_vars

(***************************************************************************)
(* Instances that are never paused: created without paused: true, and      *)
(* pause() is not called.                                                  *)
(***************************************************************************)
InitNeverPaused == Created(Options) /\ ~state.paused

NextNeverPaused ==
    \/ Render
    \/ \E v \in Val : setDirect(v)
    \/ \E v \in Val : set(v)
    \/ \E d \in Debounced : TimerFires(d)
    \/ undo
    \/ redo
    \/ clear
    \/ resume

SpecNeverPaused == InitNeverPaused /\ [][NextNeverPaused]_vars

(***************************************************************************)
(* useDebounceFn and useThrottleFn, rendered by a component of their own.  *)
(* Both hooks wrap (...args) => fnRef.current(...args) with lodash.        *)
(* debounce(func, wait) keeps lastArgs, lastCallTime, lastInvokeTime and   *)
(* timerId in its closure, runs func on the trailing edge only;            *)
(* throttle(func, wait) is debounce(func, wait, {leading: true,            *)
(* maxWait: wait, trailing: true}).                                        *)
(***************************************************************************)
\* The clock is explored up to this tick.
MaxTime == 4

\* At most this many setTimeout callbacks are pending at a time.
MaxTimers == 2

\* The delay given to the hook, in ticks.
Delay == 2

\* The functions a render can pass to the hook: fn1 and fn2.
Fns == {1, 2}

\* The argument lists a caller passes.
Args == {1, 2}

Policies == {"debounce", "throttle"}

leading == policy = "throttle"

maxing == policy = "throttle"

maxWait == Delay

\* The closure of a debounced function nobody has called.
NewClosure ==
    [lastArgs |-> <<>>,
     lastCallTime |-> Undefined,
     lastInvokeTime |-> 0,
     timerId |-> Undefined]

\* What a lodash function did to the closure d: the timers it cleared, the
\* deadline of the timer it started (if any) and the argument list it
\* called func with (if any).  A timer id is written as the deadline of the
\* timer: two pending timers of one instance with one deadline run the same
\* callback on the same closure, so clearing either is the same.
Outcome(d, cleared, start, calls) ==
    [d |-> d, clear |-> cleared, start |-> start, calls |-> calls]

shouldInvoke(d, time) ==
    LET timeSinceLastCall == time - d.lastCallTime
        timeSinceLastInvoke == time - d.lastInvokeTime
    IN \/ d.lastCallTime = Undefined
       \/ timeSinceLastCall >= Delay
       \/ timeSinceLastCall < 0
       \/ maxing /\ timeSinceLastInvoke >= maxWait

remainingWait(d, time) ==
    LET timeSinceLastCall == time - d.lastCallTime
        timeSinceLastInvoke == time - d.lastInvokeTime
        timeWaiting == Delay - timeSinceLastCall
    IN IF maxing /\ maxWait - timeSinceLastInvoke < timeWaiting
       THEN maxWait - timeSinceLastInvoke
       ELSE timeWaiting

\* invokeFunc(time) calls func with lastArgs and forgets them.
invokeFunc(d, time) ==
    Outcome([d EXCEPT !.lastArgs = <<>>, !.lastInvokeTime = time],
            {}, Undefined, d.lastArgs)

leadingEdge(d, time) ==
    LET e == [d EXCEPT !.lastInvokeTime = time]
    IN IF leading
       THEN [invokeFunc(e, time) EXCEPT !.start = time + Delay]
       ELSE Outcome(e, {}, time + Delay, <<>>)

trailingEdge(d, time) ==
    LET e == [d EXCEPT !.timerId = Undefined]
    IN IF e.lastArgs # <<>>
       THEN invokeFunc(e, time)
       ELSE Outcome(e, {}, Undefined, <<>>)

timerExpired(d, time) ==
    IF shouldInvoke(d, time)
    THEN trailingEdge(d, time)
    ELSE Outcome(d, {}, time + remainingWait(d, time), <<>>)

\* Mutant of cancel: the timer is cleared, the arguments stay.
cancel_keepsLastArgs(d) ==
    Outcome([NewClosure EXCEPT !.lastArgs = d.lastArgs],
            IF d.timerId # Undefined THEN {d.timerId} ELSE {},
            Undefined, <<>>)


cancel(d) ==
    Outcome(NewClosure,
            IF d.timerId # Undefined THEN {d.timerId} ELSE {},
            Undefined, <<>>)

\* Mutant of flush: func is called and its arguments stay pending.
flush_keepsLastArgs(d, time) ==
    IF d.timerId = Undefined
    THEN Outcome(d, {}, Undefined, <<>>)
    ELSE Outcome([d EXCEPT !.timerId = Undefined], {}, Undefined, d.lastArgs)


flush(d, time) ==
    IF d.timerId = Undefined
    THEN Outcome(d, {}, Undefined, <<>>)
    ELSE trailingEdge(d, time)

debounced(d, args, time) ==
    LET isInvoking == shouldInvoke(d, time)
        e == [d EXCEPT !.lastArgs = <<args>>, !.lastCallTime = time]
    IN IF isInvoking /\ e.timerId = Undefined
       THEN leadingEdge(e, time)
       ELSE IF isInvoking /\ maxing
            THEN [invokeFunc(e, time) EXCEPT !.clear = {e.timerId},
                                             !.start = time + Delay]
            ELSE IF e.timerId = Undefined
                 THEN Outcome(e, {}, time + Delay, <<>>)
                 ELSE Outcome(e, {}, Undefined, <<>>)

\* The outcome o of a lodash function of instance i takes effect: timers
\* are cleared and started, and func, which is
\* (...args) => fnRef.current(...args), is called.
Settle(op, i, args, o, fired) ==
    LET rest == (hostTimers (-) fired) (-) SetToBag({[inst |-> i, at |-> at] : at \in o.clear})
    IN /\ o.start # Undefined => BagCardinality(rest) < MaxTimers
       /\ lodash' = [lodash EXCEPT ![i] =
                        IF o.start = Undefined THEN o.d ELSE [o.d EXCEPT !.timerId = o.start]]
       /\ hostTimers' =
              IF o.start = Undefined
              THEN rest
              ELSE rest (+) SetToBag({[inst |-> i, at |-> o.start]})
       /\ ran' = [op |-> op,
                  inst |-> i,
                  args |-> args,
                  calls |-> IF o.calls = <<>>
                            THEN <<>>
                            ELSE <<[fn |-> fnRef, args |-> o.calls[1]]>>]

\* The caller calls a function the hook returned.
Invoke(i, args) ==
    /\ i \in held
    /\ now + Delay <= MaxTime
    /\ Settle("call", i, <<args>>, debounced(lodash[i], args, now), EmptyBag)
    /\ UNCHANGED <<historyVars, storeVars, tempVars, now, policy, fn, fnRef, held>>

\* The caller calls .cancel() of a function the hook returned.
Cancel(i) ==
    /\ i \in held
    /\ Settle("cancel", i, lodash[i].lastArgs, cancel(lodash[i]), EmptyBag)
    /\ UNCHANGED <<historyVars, storeVars, tempVars, now, policy, fn, fnRef, held>>

\* The caller calls .flush() of a function the hook returned.
Flush(i) ==
    /\ i \in held
    /\ Settle("flush", i, <<>>, flush(lodash[i], now), EmptyBag)
    /\ UNCHANGED <<historyVars, storeVars, tempVars, now, policy, fn, fnRef, held>>

\* The host runs a setTimeout callback that is due.
Timeout(t) ==
    /\ BagIn(t, hostTimers)
    /\ t.at <= now
    /\ Settle("timeout", t.inst, <<>>, timerExpired(lodash[t.inst], now), SetToBag({t}))
    /\ UNCHANGED <<historyVars, storeVars, tempVars, now, policy, fn, fnRef, held>>

\* A tick of the clock passes; callbacks that are due and the passive
\* effects of the last commit run first.
Tick ==
    /\ now < MaxTime
    /\ \A t \in BagToSet(hostTimers) : t.at > now
    /\ fnRef = fn
    /\ now' = now + 1
    /\ UNCHANGED <<historyVars, storeVars, tempVars, policy, fn, fnRef, held, lodash, hostTimers, ran>>

\* The component renders again with f and the render commits: passive
\* effects still pending from the render before are flushed first, and the
\* hook returns debouncedFn.current, the instance of the mount effect.
Rerender(f) ==
    /\ fn' = f
    /\ fnRef' = fn
    /\ held' = held \cup {MountEffectFn}
    /\ UNCHANGED <<historyVars, storeVars, tempVars, now, policy, lodash, hostTimers, ran>>

\* The passive effect of the last commit runs: fnRef.current = fn.
FlushPassiveEffects ==
    /\ fnRef # fn
    /\ fnRef' = fn
    /\ UNCHANGED <<historyVars, storeVars, tempVars, now, policy, fn, held, lodash, hostTimers, ran>>

\* The component after its first render and its mount effects: the caller
\* holds the instance of the first render, debouncedFn.current is the
\* instance of the mount effect.
InitFn ==
    /\ NoHistoryState
    /\ NoGlobalState
    /\ NoTemporaryState
    /\ now = 0
    /\ policy \in Policies
    /\ fn = 1
    /\ fnRef = 1
    /\ held = {FirstRenderFn}
    /\ lodash = [i \in Debounced |-> NewClosure]
    /\ hostTimers = EmptyBag
    /\ ran = [op |-> "mount", inst |-> FirstRenderFn, args |-> <<>>, calls |-> <<>>]

NextFn ==
    \/ \E i \in Debounced, args \in Args : Invoke(i, args)
    \/ \E i \in Debounced : Cancel(i)
    \/ \E i \in Debounced : Flush(i)
    \/ \E t \in BagToSet(hostTimers) : Timeout(t)
    \/ Tick
    \/ \E f \in Fns : Rerender(f)
    \/ FlushPassiveEffects

SpecFn == InitFn /\ [][NextFn]_vars

(***************************************************************************)
(* A mounted hook whose caller never calls cancel or flush.  The host      *)
(* runs a setTimeout callback once it is due, the clock goes on whatever   *)
(* the component does, and React runs the passive effects of a commit.     *)
(***************************************************************************)
NextQuiescence ==
    \/ \E i \in Debounced, args \in Args : Invoke(i, args)
    \/ \E t \in BagToSet(hostTimers) : Timeout(t)
    \/ Tick
    \/ \E f \in Fns : Rerender(f)
    \/ FlushPassiveEffects

SpecQuiescence == InitFn /\ [][NextQuiescence]_vars

FairQuiescence ==
    /\ SpecQuiescence
    /\ WF_vars(\E t \in BagToSet(hostTimers) : Timeout(t))
    /\ SF_vars(Tick)
    /\ WF_vars(FlushPassiveEffects)

(***************************************************************************)
(* createGlobalState(initialState): a closure over state and an ordered    *)
(* set of subscribers, with setState, resetState and subscribe.  The store *)
(* keeps the values it is given (it never clones them) and compares them   *)
(* by their JSON text.                                                     *)
(***************************************************************************)
\* The callbacks a client can subscribe: cb1, cb2 and cb3.
Callbacks == {1, 2, 3}

\* cb3 throws when it is called.
Throwing == {3}

\* The updater functions a caller can pass to setState: prev => prev,
\* prev => ({...prev}) and prev => ({x: prev?.x === 1 ? 2 : 1}).
Updaters == {"same", "copy", "other"}

\* setState(v) with a value.
Value(v) == [typeof |-> "object", v |-> v, f |-> "none"]

\* setState(f) with an updater function.
Updater(f) == [typeof |-> "function", v |-> Null, f |-> f]

\* f(prevState) for an updater f.
Apply(f, prevState) ==
    CASE f = "same" -> prevState
      [] f = "copy" -> cloneDeep(prevState)
      [] OTHER -> [k |-> "obj", ref |-> 0,
                   x |-> IF prevState.k = "obj" /\ contentOf(prevState) = 1
                         THEN 2 ELSE 1]

\* The elements of a sequence.
Range(s) == {s[i] : i \in DOMAIN s}

\* A call on the store that notified nobody.
Silent == [calls |-> <<>>, logged |-> <<>>, thrown |-> <<>>]

\* subscribers.forEach over the rest subs of the set: each callback is called
\* with st inside a try; what it throws is handed to console.error.
RECURSIVE forEach(_, _, _)
forEach(subs, st, done) ==
    IF subs = <<>>
    THEN done
    ELSE LET callback == Head(subs)
             called == [done EXCEPT !.calls = Append(@, [callback |-> callback,
                                                         state |-> st])]
         IN forEach(Tail(subs), st,
                    IF callback \in Throwing
                    THEN [called EXCEPT !.logged = Append(@, callback)]
                    ELSE called)

\* The same loop without the try: the first error ends it and leaves
\* notifySubscribers.
RECURSIVE forEach_withoutTry(_, _, _)
forEach_withoutTry(subs, st, done) ==
    IF subs = <<>>
    THEN done
    ELSE LET callback == Head(subs)
             called == [done EXCEPT !.calls = Append(@, [callback |-> callback,
                                                         state |-> st])]
         IN IF callback \in Throwing
            THEN [called EXCEPT !.thrown = <<callback>>]
            ELSE forEach_withoutTry(Tail(subs), st, called)

notifySubscribers_withoutTry(st) == forEach_withoutTry(subscribers, st, Silent)

notifySubscribers(st) == forEach(subscribers, st, Silent)

\* The components after the calls made by a notification: the callback
\* useGlobalState subscribed for component c is newState => setState(newState),
\* so the state of c is what its callback was called with last.  The
\* callbacks of a store no component uses do nothing to components.
Delivered(calls) ==
    [c \in DOMAIN components |->
        LET mine == SelectSeq(calls, LAMBDA call : call.callback = c)
        IN IF mine = <<>>
           THEN components[c]
           ELSE [components[c] EXCEPT !.state = mine[Len(mine)].state,
                                      !.notified = TRUE]]

\* What a call op on the store did.
StoreCall(op, arg, next, n) ==
    [op |-> op, arg |-> arg, next |-> next,
     calls |-> n.calls, logged |-> n.logged, thrown |-> n.thrown]

\* The next state setState(newState) computes.
NextState(newState) ==
    IF newState.typeof = "function"
    THEN Apply(newState.f, globalState.state)
    ELSE newState.v

setState_comparesIdentity(newState) ==
    LET nextState == NextState(newState)
        changed == ~StrictEquals(globalState.state, nextState)
        n == IF changed THEN notifySubscribers(nextState) ELSE Silent
    IN /\ globalState' = [globalState EXCEPT !.state = IF changed THEN nextState ELSE @]
       /\ notified' = StoreCall("setState", <<newState>>, <<nextState>>, n)
       /\ components' = Delivered(n.calls)
       /\ UNCHANGED <<historyVars, fnVars, tempVars, subscribers>>

setState(newState) ==
    LET nextState == NextState(newState)
        changed == JSONstringify(globalState.state) # JSONstringify(nextState)
        n == IF changed THEN notifySubscribers(nextState) ELSE Silent
    IN /\ globalState' = [globalState EXCEPT !.state = IF changed THEN nextState ELSE @]
       /\ notified' = StoreCall("setState", <<newState>>, <<nextState>>, n)
       /\ components' = Delivered(n.calls)
       /\ UNCHANGED <<historyVars, fnVars, tempVars, subscribers>>

resetState ==
    LET n == notifySubscribers(globalState.initialState)
    IN /\ globalState' = [globalState EXCEPT !.state = globalState.initialState]
       /\ notified' = StoreCall("resetState", <<>>, <<globalState.initialState>>, n)
       /\ components' = Delivered(n.calls)
       /\ UNCHANGED <<historyVars, fnVars, tempVars, subscribers>>

\* subscribe(callback): Set.add appends a callback that is not in the set.
subscribe(callback) ==
    /\ subscribers' = IF callback \in Range(subscribers)
                      THEN subscribers
                      ELSE Append(subscribers, callback)
    /\ notified' = StoreCall("subscribe", <<callback>>, <<>>, Silent)
    /\ UNCHANGED <<historyVars, fnVars, tempVars, globalState, components>>

\* The function subscribe(callback) returned is called: Set.delete.
unsubscribe(callback) ==
    /\ callback \in Range(subscribers)
    /\ subscribers' = SelectSeq(subscribers, LAMBDA c : c # callback)
    /\ notified' = StoreCall("unsubscribe", <<callback>>, <<>>, Silent)
    /\ UNCHANGED <<historyVars, fnVars, tempVars, globalState, components>>

\* The store createGlobalState(initialState) returns.
InitStore ==
    /\ NoHistoryState
    /\ NoFnHook
    /\ NoTemporaryState
    /\ \E initialState \in Val :
           globalState = [state |-> initialState, initialState |-> initialState]
    /\ subscribers = <<>>
    /\ notified = StoreCall("createGlobalState", <<>>, <<>>, Silent)
    /\ components = <<>>

NextStore ==
    \/ \E v \in Val : setState(Value(v))
    \/ \E f \in Updaters : setState(Updater(f))
    \/ resetState
    \/ \E callback \in Callbacks : subscribe(callback)
    \/ \E callback \in Callbacks : unsubscribe(callback)

SpecStore == InitStore /\ [][NextStore]_vars

(***************************************************************************)
(* useGlobalState(globalState): the component keeps a React state that     *)
(* starts at the first element of the tuple createGlobalState returned,    *)
(* and a passive effect subscribes newState => setState(newState) to the   *)
(* store.  The callback of component c is callback c of the store.         *)
(***************************************************************************)
Components == {1, 2}

\* A component that is not rendered.
Unmounted == [mounted |-> FALSE, subscribed |-> FALSE, notified |-> FALSE, state |-> Null]

\* The first element of the tuple: the value of state when createGlobalState
\* returned.
globalValue == globalState.initialState

\* Component c renders for the first time: useState(globalValue).
Mount(c) ==
    /\ ~components[c].mounted
    /\ components' = [components EXCEPT ![c] =
                         [mounted |-> TRUE, subscribed |-> FALSE, notified |-> FALSE,
                          state |-> globalValue]]
    /\ notified' = StoreCall("mount", <<c>>, <<>>, Silent)
    /\ UNCHANGED <<historyVars, fnVars, tempVars, globalState, subscribers>>

\* The passive effect of the first render of c runs: store.subscribe.
MountEffect(c) ==
    /\ components[c].mounted
    /\ ~components[c].subscribed
    /\ components' = [components EXCEPT ![c].subscribed = TRUE]
    /\ subscribers' = Append(subscribers, c)
    /\ notified' = StoreCall("subscribe", <<c>>, <<>>, Silent)
    /\ UNCHANGED <<historyVars, fnVars, tempVars, globalState>>

\* Component c unmounts: the cleanup of the effect calls unsubscribe.
Unmount(c) ==
    /\ components[c].subscribed
    /\ components' = [components EXCEPT ![c] = Unmounted]
    /\ subscribers' = SelectSeq(subscribers, LAMBDA callback : callback # c)
    /\ notified' = StoreCall("unmount", <<c>>, <<>>, Silent)
    /\ UNCHANGED <<historyVars, fnVars, tempVars, globalState>>

\* A store and no component yet.
InitGlobal ==
    /\ NoHistoryState
    /\ NoFnHook
    /\ NoTemporaryState
    /\ \E initialState \in Val :
           globalState = [state |-> initialState, initialState |-> initialState]
    /\ subscribers = <<>>
    /\ notified = StoreCall("createGlobalState", <<>>, <<>>, Silent)
    /\ components = [c \in Components |-> Unmounted]

\* setState is the setter every component returns and the one a direct
\* caller takes from the tuple.
NextGlobal ==
    \/ \E v \in Val : setState(Value(v))
    \/ \E f \in Updaters : setState(Updater(f))
    \/ resetState
    \/ \E c \in Components : Mount(c)
    \/ \E c \in Components : MountEffect(c)
    \/ \E c \in Components : Unmount(c)

SpecGlobal == InitGlobal /\ [][NextGlobal]_vars

(***************************************************************************)
(* useTemporaryState(initialState, timeout): a React state and an effect   *)
(* with the dependencies [initialState, state, timeout] that clears the    *)
(* timer timeoutRef.current holds and starts one that sets the state to    *)
(* the initialState of its render.  The effect is passive: React runs it   *)
(* after the commit, before the next render of the component and before    *)
(* the clock moves on.                                                     *)
(***************************************************************************)
\* The values the state takes and the initial states a render can pass.
TemporaryValues == {0, 1, 2}

InitialValues == {0, 1}

\* The timeouts a render can pass, in ticks.
Timeouts == {1, 2}

\* clearTimeout(timeoutRef.current) on the pending timers ts.
clearTimeout(ts, ref) ==
    IF ref # <<>> /\ BagIn(ref[1], ts) THEN ts (-) SetToBag({ref[1]}) ELSE ts

\* Mutant of RunEffect: the timer of the render before is left pending.
RunEffect_keepsTimer(h, ts, time) ==
    LET t == [at |-> time + h.timeout, initialState |-> h.initialState]
    IN [h |-> [h EXCEPT !.timeoutRef = <<t>>, !.effect = FALSE],
        timers |-> ts (+) SetToBag({t})]

\* The effect of the committed render h runs at time: the cleanup of the
\* effect before it and the effect itself clear timeoutRef.current, and the
\* effect starts the timer of this render.
RunEffect(h, ts, time) ==
    LET t == [at |-> time + h.timeout, initialState |-> h.initialState]
    IN [h |-> [h EXCEPT !.timeoutRef = <<t>>, !.effect = FALSE],
        timers |-> clearTimeout(ts, h.timeoutRef) (+) SetToBag({t})]

\* React runs the passive effects that are pending before it renders again.
Flushed(h, ts, time) ==
    IF h.effect THEN RunEffect(h, ts, time) ELSE [h |-> h, timers |-> ts]

\* The caller calls the setState the hook returned with another value: the
\* component renders with it and the render commits.
setTemporaryState(v) ==
    /\ v # temporary.state
    /\ LET f == Flushed(temporary, hostTimers, now)
       IN /\ temporary' = [f.h EXCEPT !.state = v, !.effect = TRUE,
                                      !.setAt = now, !.restartedAt = now,
                                      !.op = "setState"]
          /\ hostTimers' = f.timers
    /\ UNCHANGED <<historyVars, storeVars, now, policy, fn, fnRef, held, lodash, ran>>

\* The component renders with another initialState or timeout.
rerenderTemporary(initialState, timeout) ==
    /\ <<initialState, timeout>> # <<temporary.initialState, temporary.timeout>>
    /\ LET f == Flushed(temporary, hostTimers, now)
       IN /\ temporary' = [f.h EXCEPT !.initialState = initialState,
                                      !.timeout = timeout,
                                      !.effect = TRUE,
                                      !.restartedAt = now,
                                      !.op = "rerender"]
          /\ hostTimers' = f.timers
    /\ UNCHANGED <<historyVars, storeVars, now, policy, fn, fnRef, held, lodash, ran>>

\* The passive effect of the last commit runs.
flushTemporaryEffect ==
    /\ temporary.effect
    /\ LET f == RunEffect(temporary, hostTimers, now)
       IN /\ temporary' = [f.h EXCEPT !.op = "effect"]
          /\ hostTimers' = f.timers
    /\ UNCHANGED <<historyVars, storeVars, now, policy, fn, fnRef, held, lodash, ran>>

\* The host runs the timer t, which is due: setState(initialState) with the
\* initialState of the render that started t.  React does nothing when that
\* is the state; otherwise it renders the component, after the passive
\* effects that were pending, and the render commits.
timeoutTemporary(t) ==
    /\ BagIn(t, hostTimers)
    /\ t.at <= now
    /\ LET rest == hostTimers (-) SetToBag({t})
           f == Flushed(temporary, rest, now)
       IN IF t.initialState = temporary.state
          THEN /\ temporary' = [temporary EXCEPT !.op = "timeout"]
               /\ hostTimers' = rest
          ELSE /\ temporary' = [f.h EXCEPT !.state = t.initialState,
                                           !.effect = TRUE,
                                           !.restartedAt = now,
                                           !.op = "reset"]
               /\ hostTimers' = f.timers
    /\ UNCHANGED <<historyVars, storeVars, now, policy, fn, fnRef, held, lodash, ran>>

\* A tick of the clock passes; callbacks that are due and the passive
\* effect of the last commit run first.
tickTemporary ==
    /\ now < MaxTime
    /\ \A t \in BagToSet(hostTimers) : t.at > now
    /\ ~temporary.effect
    /\ now' = now + 1
    /\ temporary' = [temporary EXCEPT !.op = "tick"]
    /\ UNCHANGED <<historyVars, storeVars, policy, fn, fnRef, held, lodash, hostTimers, ran>>

\* The component after its first render and its mount effect, which has
\* started the first timer.  setAt and restartedAt remember when the caller
\* last changed the state and when the dependencies of the effect last
\* changed.
InitTemporary ==
    /\ NoHistoryState
    /\ NoGlobalState
    /\ now = 0
    /\ policy = "none"
    /\ fn = 0
    /\ fnRef = 0
    /\ held = {}
    /\ lodash = <<>>
    /\ ran = <<>>
    /\ \E initialState \in InitialValues, timeout \in Timeouts :
          LET t == [at |-> timeout, initialState |-> initialState]
          IN /\ temporary = [state |-> initialState,
                             initialState |-> initialState,
                             timeout |-> timeout,
                             timeoutRef |-> <<t>>,
                             effect |-> FALSE,
                             setAt |-> 0,
                             restartedAt |-> 0,
                             op |-> "mount"]
             /\ hostTimers = SetToBag({t})

NextTemporary ==
    \/ \E v \in TemporaryValues : setTemporaryState(v)
    \/ \E initialState \in InitialValues, timeout \in Timeouts :
           rerenderTemporary(initialState, timeout)
    \/ flushTemporaryEffect
    \/ \E t \in BagToSet(hostTimers) : timeoutTemporary(t)
    \/ tickTemporary

SpecTemporary == InitTemporary /\ [][NextTemporary]_vars

(***************************************************************************)
(* Vocabulary of the properties.                                           *)
(***************************************************************************)
\* The equality policy as the contract states it: JSON serialization in
\* structural mode, identity in immutable mode.
PolicyEqual(a, b) ==
    IF options.immutable
    THEN a.k = b.k /\ a.ref = b.ref /\ (a.k = "obj" => a.ref # 0)
    ELSE JSONstringify(a) = JSONstringify(b)

\* The value the store keeps for v: v itself in immutable mode, a deep
\* copy in structural mode.
Stored(v) == IF options.immutable THEN v ELSE cloneDeep(v)

\* This step is a committed render (every other step leaves needsRender
\* set once it is set).
RenderStep == needsRender /\ ~needsRender'

\* This step is the call or timer step op.
Step(op) == ~RenderStep /\ last'.op = op

\* This step applies a SET transition carrying v: setDirect, set without
\* debounceTime, or a deferred commit.
SetStep(v) ==
    /\ ~RenderStep
    /\ last'.arg = <<v>>
    /\ \/ last'.op \in {"setDirect", "timer"}
       \/ last'.op = "set" /\ options.debounceTime = 0

Capped == options.maxCapacity > 0

\* The last k entries of s (all of s when it has no more than k).
LastK(s, k) == IF Len(s) > k THEN SubSeq(s, Len(s) - k + 1, Len(s)) ELSE s

Front(s) == SubSeq(s, 1, Len(s) - 1)

LastSetFired == last.op \in {"set", "setDirect", "timer"} /\ last.onChange # <<>>

(***************************************************************************)
(* Capacity and linear history.                                            *)
(***************************************************************************)
\* C1: when maxCapacity = k > 0 is configured, past never holds more than
\* k entries, whatever sequence of set, setDirect, undo, redo, clear, pause,
\* resume and deferred commits led to the state.
C1_PastWithinCapacity == Capped => Len(state.past) <= options.maxCapacity

\* A deferred commit was applied to a store whose past was full.
C1_Witness ==
    /\ Capped
    /\ last.op = "timer"
    /\ last.onChange # <<>>
    /\ ~state.paused
    /\ last.sizes[1] = options.maxCapacity
    /\ Len(state.past) = options.maxCapacity

\* C2: a SET applied while not paused with a value that is not equal to
\* present leaves future empty, so canRedo is false (linear history).
C2_LinearHistory ==
    [][\A v \in Val :
          (SetStep(v) /\ ~state.paused /\ ~PolicyEqual(v, state.present))
              => (state'.future = <<>> /\ ~canRedo')]_vars

\* A SET has been applied, unpaused, to a store that had something to redo.
C2_Witness ==
    /\ LastSetFired
    /\ ~state.paused
    /\ last.sizes[2] > 0
    /\ state.future = <<>>
    /\ state.past # <<>>

(***************************************************************************)
(* The transitions.                                                        *)
(***************************************************************************)
\* C3: a SET whose value is equal to present under the active equality
\* policy returns the state unchanged (past, present, future, paused) and
\* onChange is not invoked.
C3_NoOpSet ==
    [][\A v \in Val :
          (SetStep(v) /\ PolicyEqual(v, state.present))
              => (state' = state /\ last'.onChange = <<>>)]_vars

\* In structural mode setDirect was called with an object whose JSON is
\* that of present, on a store with history on both sides.
C3_Witness ==
    /\ ~options.immutable
    /\ last.op = "setDirect"
    /\ last.arg # <<>>
    /\ last.arg[1].k = "obj"
    /\ JSONstringify(last.arg[1]) = JSONstringify(state.present)
    /\ last.onChange = <<>>
    /\ last.sizes = <<1, 1>>
    /\ state.past # <<>>
    /\ state.future # <<>>

\* C4: UNDO with non-empty past makes the last entry of past the new
\* present, removes it from past and pushes the old present to the front of
\* future; UNDO with empty past returns the state unchanged and fires no
\* notification.
C4_Undo ==
    [][Step("undo") =>
          IF state.past # <<>>
          THEN /\ state'.present = state.past[Len(state.past)]
               /\ state'.past = Front(state.past)
               /\ state'.future = <<state.present>> \o state.future
          ELSE /\ state' = state
               /\ last'.onChange = <<>>]_vars

\* undo() was called three times after one render: two UNDO transitions
\* moved two entries to future, the third found past empty.
C4_Witness ==
    /\ last.op = "undo"
    /\ last.onChange = <<>>
    /\ last.sizes = <<0, 2>>
    /\ Len(state.future) = 2
    /\ state.past = <<>>

\* C5: REDO with non-empty future makes the first entry of future the new
\* present, removes it from future and appends the old present to past,
\* past keeping at most maxCapacity entries, the newest ones; REDO with
\* empty future returns the state unchanged and fires no notification.
C5_Redo ==
    [][Step("redo") =>
          IF state.future # <<>>
          THEN /\ state'.present = state.future[1]
               /\ state'.future = Tail(state.future)
               /\ state'.past =
                      IF Capped
                      THEN LastK(Append(state.past, state.present), options.maxCapacity)
                      ELSE Append(state.past, state.present)
          ELSE /\ state' = state
               /\ last'.onChange = <<>>]_vars

\* redo() was called three times after one render on a store of capacity
\* 2 or more: two REDO transitions filled past, the third found future empty.
C5_Witness ==
    /\ Capped
    /\ last.op = "redo"
    /\ last.onChange = <<>>
    /\ last.sizes[2] = 0
    /\ Len(state.past) = options.maxCapacity
    /\ Len(state.past) >= 2
    /\ state.future = <<>>

(***************************************************************************)
(* Round trip, eviction order, pause.                                      *)
(***************************************************************************)
\* The UNDO transition followed by the REDO transition.
RoundTrip(st) ==
    reduceREDO(reduceUNDO(st, options.immutable).state, options.immutable).state

\* C6 as stated: right after any non-no-op set(v), undo then redo restores
\* present = v and leaves past and future as they were after that set.
C6_RoundTripAnySet ==
    LastSetFired =>
        /\ state.present = Stored(last.arg[1])
        /\ RoundTrip(state) = state

\* C6, amended: right after a non-no-op set(v) that leaves past non-empty
\* or future empty (every set applied while not paused does), UNDO then
\* REDO restores present = v and leaves past and future as they were.
C6_RoundTrip ==
    (LastSetFired /\ (state.past # <<>> \/ state.future = <<>>)) =>
        /\ state.present = Stored(last.arg[1])
        /\ RoundTrip(state) = state

\* A paused SET was applied with history on both sides: the round trip
\* moves present through future and back.
C6_Witness ==
    /\ LastSetFired
    /\ state.paused
    /\ state.past # <<>>
    /\ state.future # <<>>
    /\ reduceUNDO(state, options.immutable).state # state

\* v0 followed by the values of the set calls made so far.
RunValues == <<initialStateRef>> \o setRun.vs

PairwiseDistinct(s) ==
    \A i, j \in 1..Len(s) : i < j => ~PolicyEqual(s[i], s[j])

\* v0 .. v(n-1) as the store keeps them.
Predecessors == [i \in 1..Len(setRun.vs) |-> Stored(RunValues[i])]

\* C7: with maxCapacity = k, after n immediate unpaused set calls with
\* pairwise distinct values v1..vn on a store created with v0, past is the
\* last min(n, k) of v0..v(n-1), oldest first, and present is vn.
C7_FifoEviction ==
    (setRun.ok /\ Capped /\ PairwiseDistinct(RunValues)) =>
        /\ state.past = LastK(Predecessors, options.maxCapacity)
        /\ state.present = Stored(RunValues[Len(RunValues)])

\* C7 for values none of which is null: the same statement holds.
C7_FifoEvictionNonNull ==
    (/\ setRun.ok
     /\ Capped
     /\ PairwiseDistinct(RunValues)
     /\ \A i \in 1..Len(RunValues) : RunValues[i] # Null) =>
        /\ state.past = LastK(Predecessors, options.maxCapacity)
        /\ state.present = Stored(RunValues[Len(RunValues)])

\* Two distinct non-null values were set on a store of capacity 1: the
\* older predecessor has been evicted.
C7_NonNullWitness ==
    /\ setRun.ok
    /\ options.maxCapacity = 1
    /\ PairwiseDistinct(RunValues)
    /\ \A i \in 1..Len(RunValues) : RunValues[i] # Null
    /\ Len(setRun.vs) = 2

\* C8: while paused, a SET with a value not equal to present sets present
\* to that value and leaves past and future unchanged; so after pause();
\* set(a); set(b); resume() present is b and past and canUndo are what they
\* were before pause.
C8_PausedSet ==
    /\ [][\A v \in Val :
             (SetStep(v) /\ state.paused /\ ~PolicyEqual(v, state.present))
                 => /\ state'.present = Stored(v)
                    /\ state'.past = state.past
                    /\ state'.future = state.future]_vars
    /\ []((pauseRun.phase = "resumed" /\ pauseRun.b # <<>>) =>
             /\ state.present = Stored(pauseRun.b[1])
             /\ state.past = pauseRun.past
             /\ canUndo = (pauseRun.past # <<>>)
             /\ ~needsRender => view.canUndo = (pauseRun.past # <<>>))

\* pause(); set(..); set(b); resume() has just run on a store with one
\* past entry, and b was not the present.
C8_Witness ==
    /\ pauseRun.phase = "resumed"
    /\ pauseRun.b # <<>>
    /\ pauseRun.past # <<>>
    /\ ~PolicyEqual(pauseRun.b[1], pauseRun.past[Len(pauseRun.past)])
    /\ last.op = "resume"
    /\ ~state.paused

\* C9: PAUSE sets paused to true and RESUME sets it to false, in any state;
\* neither changes past, present or future, and neither invokes onChange.
C9_PauseResume ==
    [][/\ Step("pause") =>
            (state' = [state EXCEPT !.paused = TRUE] /\ last'.onChange = <<>>)
       /\ Step("resume") =>
            (state' = [state EXCEPT !.paused = FALSE] /\ last'.onChange = <<>>)]_vars

\* pause() was called on a store that was paused already and has history
\* on both sides.
C9_Witness ==
    /\ last.op = "pause"
    /\ pauseRun.phase = "paused"
    /\ state.paused
    /\ state.past # <<>>
    /\ state.future # <<>>
    /\ last.onChange = <<>>

\* The state with the paused flag the other way.
Flipped == [state EXCEPT !.paused = ~@]

SamePresentPastFuture(s, t) ==
    s.present = t.present /\ s.past = t.past /\ s.future = t.future

\* C10: UNDO, REDO and CLEAR have the same effect on past, present and
\* future whether paused is true or false, and each leaves paused unchanged.
C10_PauseBlind ==
    LET imm == options.immutable
        undo1 == reduceUNDO(state, imm)
        undo2 == reduceUNDO(Flipped, imm)
        redo1 == reduceREDO(state, imm)
        redo2 == reduceREDO(Flipped, imm)
        clear1 == reduceCLEAR(state, initialStateRef, imm)
        clear2 == reduceCLEAR(Flipped, initialStateRef, imm)
    IN /\ SamePresentPastFuture(undo1.state, undo2.state)
       /\ SamePresentPastFuture(redo1.state, redo2.state)
       /\ SamePresentPastFuture(clear1.state, clear2.state)
       /\ undo1.state.paused = state.paused /\ undo2.state.paused = ~state.paused
       /\ redo1.state.paused = state.paused /\ redo2.state.paused = ~state.paused
       /\ clear1.state.paused = state.paused /\ clear2.state.paused = ~state.paused

\* A REDO transition has been applied while paused.
C10_Witness ==
    /\ last.op = "redo"
    /\ last.onChange # <<>>
    /\ state.paused
    /\ state.past # <<>>
    /\ state.future # <<>>

(***************************************************************************)
(* Clear, the derived booleans, notification, creation.                    *)
(***************************************************************************)
\* The initial value as it was when the store was created, under the
\* cloning policy.
CreatedPresent ==
    IF options.immutable \/ initialStateRef = Null
    THEN initialStateRef
    ELSE [k |-> "obj", ref |-> 0, x |-> InitialHeap[initialStateRef.ref]]

ClearedTo(present) ==
    /\ state'.past = <<>>
    /\ state'.future = <<>>
    /\ state'.present = present
    /\ state'.paused = state.paused

\* C11: CLEAR, from any state, yields past = [], future = [], present = the
\* initial value given at creation (not any later value), with paused
\* unchanged.
C11_Clear == [][Step("clear") => ClearedTo(CreatedPresent)]_vars

\* C11 while the caller has left the object it gave as the initial value as
\* it was: the same statement holds.
C11_ClearUnmutated ==
    [][(Step("clear") /\ heap = InitialHeap) => ClearedTo(CreatedPresent)]_vars

\* clear() was called on a paused store that had something to undo, and the
\* initial object had not been touched.
C11_UnmutatedWitness ==
    /\ last.op = "clear"
    /\ last.sizes = <<1, 0>>
    /\ heap = InitialHeap
    /\ initialStateRef # Null
    /\ state.paused
    /\ state.present = CreatedPresent

\* C12: in every observable state (a committed render with no update
\* waiting), canUndo is true exactly when past is non-empty and canRedo is
\* true exactly when future is non-empty.
C12_DerivedBooleans ==
    ~needsRender =>
        /\ view.canUndo = (state.past # <<>>)
        /\ view.canRedo = (state.future # <<>>)

\* The render after an undo() that left entries on both sides.
C12_Witness ==
    /\ ~needsRender
    /\ last.op = "undo"
    /\ last.onChange # <<>>
    /\ view.canUndo
    /\ view.canRedo

\* The transition a call or a deferred commit applies.
KindOf(op) ==
    CASE op \in {"set", "setDirect", "timer"} -> "SET"
      [] op = "undo" -> "UNDO"
      [] op = "redo" -> "REDO"
      [] op = "clear" -> "CLEAR"
      [] op = "pause" -> "PAUSE"
      [] op = "resume" -> "RESUME"

\* This step applies an UNDO, REDO, SET or CLEAR transition.
TransitionStep ==
    \/ \E v \in Val : SetStep(v)
    \/ Step("undo")
    \/ Step("redo")
    \/ Step("clear")

\* The one onChange call of this step: the kind of the transition with the
\* new present.
Notified == last'.onChange = <<[action |-> KindOf(last'.op), state |-> state'.present]>>

\* A transition that changes present notifies with its kind and the new
\* present; PAUSE and RESUME notify nobody.
NotifiesChanges ==
    /\ (TransitionStep /\ state'.present # state.present) => Notified
    /\ (Step("pause") \/ Step("resume")) => last'.onChange = <<>>

\* C13 as stated: onChange is invoked with {action: kind, state: new
\* present} for every UNDO, REDO, SET and CLEAR transition that changes
\* present, and never for a transition that leaves past, present and future
\* unchanged nor for PAUSE / RESUME.
C13_NotificationAsStated ==
    [][/\ NotifiesChanges
       /\ (/\ TransitionStep
           /\ state'.past = state.past
           /\ state'.present = state.present
           /\ state'.future = state.future) => last'.onChange = <<>>]_vars

\* C13, amended: onChange is invoked with {action: kind, state: new present}
\* for every UNDO, REDO, SET and CLEAR transition that changes present and
\* for every CLEAR; it is never invoked for a SET whose value equals
\* present, an UNDO on an empty past or a REDO on an empty future, nor for
\* PAUSE / RESUME.
C13_Notification ==
    [][/\ NotifiesChanges
       /\ Step("clear") => Notified
       /\ \A v \in Val :
             (SetStep(v) /\ PolicyEqual(v, state.present)) => last'.onChange = <<>>
       /\ (Step("undo") /\ state.past = <<>>) => last'.onChange = <<>>
       /\ (Step("redo") /\ state.future = <<>>) => last'.onChange = <<>>]_vars

\* A deferred commit applied while paused has notified with the new present.
C13_Witness ==
    /\ last.op = "timer"
    /\ state.paused
    /\ last.onChange = <<[action |-> "SET", state |-> state.present]>>

\* C14: at creation the store has present = the initial value, past = [],
\* future = [], canUndo = canRedo = false, paused = the paused option (false
\* when not given), and onChange has not been invoked.
C14_Creation ==
    last.op = "create" =>
        /\ state.present = CreatedPresent
        /\ state.past = <<>>
        /\ state.future = <<>>
        /\ ~view.canUndo
        /\ ~view.canRedo
        /\ ~canUndo
        /\ ~canRedo
        /\ state.paused = (last.arg = <<TRUE>>)
        /\ last.onChange = <<>>
        /\ ~needsRender

\* A store has been created with an object and the option paused: true.
C14_Witness ==
    /\ last.op = "create"
    /\ last.arg = <<TRUE>>
    /\ initialStateRef # Null
    /\ state.paused
    /\ state.present.k = "obj"

(***************************************************************************)
(* Equality and cloning policy.                                            *)
(***************************************************************************)
\* What past, present and future read as.
Snapshot ==
    [past |-> [i \in 1..Len(state.past) |-> JSONstringify(state.past[i])],
     present |-> JSONstringify(state.present),
     future |-> [i \in 1..Len(state.future) |-> JSONstringify(state.future[i])]]

\* C15: in structural mode (immutable not set), after any sequence of
\* operations, mutating in place an object that the caller passed as the
\* initial value or to set / setDirect never changes any value stored in
\* past, present or future.
C15_CloneIsolation ==
    [][(Step("mutate") /\ ~options.immutable) => Snapshot' = Snapshot]_vars

\* In structural mode the object given as the initial value has been
\* mutated while its first content is in past: past still reads the old
\* content and the object reads the new one.
C15_Witness ==
    /\ last.op = "mutate"
    /\ ~options.immutable
    /\ last.arg[1] = initialStateRef
    /\ state.past # <<>>
    /\ JSONstringify(state.past[1]) = "{\"x\":1}"
    /\ JSONstringify(last.arg[1]) = "{\"x\":2}"

\* Every value the store holds.
Entries ==
    {state.present}
        \cup {state.past[i] : i \in 1..Len(state.past)}
        \cup {state.future[i] : i \in 1..Len(state.future)}

\* C16: in immutable mode equality is identity and nothing is copied:
\* set(x) is a no-op exactly when x is the same reference as present (a
\* different reference with equal content is committed as a new SET), and
\* the entries of past, present and future are the very references the
\* caller supplied.
C16_ImmutableMode ==
    /\ [][\A v \in Val :
             (SetStep(v) /\ options.immutable) =>
                 IF v = state.present
                 THEN state' = state /\ last'.onChange = <<>>
                 ELSE /\ state'.present = v
                      /\ state' # state
                      /\ last'.onChange = <<[action |-> "SET", state |-> v]>>]_vars
    /\ [](options.immutable => Entries \subseteq Val)

\* In immutable mode present was the object a and set was called with the
\* object b of equal content: b is the present and a is in past.
C16_Witness ==
    /\ options.immutable
    /\ last.op \in {"set", "setDirect"}
    /\ last.arg = <<Obj(2)>>
    /\ last.onChange # <<>>
    /\ state.present = Obj(2)
    /\ state.past = <<Obj(1)>>
    /\ JSONstringify(Obj(1)) = JSONstringify(Obj(2))

(***************************************************************************)
(* The commit scheduler.                                                   *)
(***************************************************************************)
\* This step is a call of set on a store with debounceTime.
DebouncedSetStep == Step("set") /\ options.debounceTime # 0

\* set(v) applies nothing and leaves v pending with the latest deadline.
SchedulesOnly ==
    /\ state' = state
    /\ last'.onChange = <<>>
    /\ timers' # <<>>
    /\ <<timers'[Len(timers')].args>> = last'.arg

\* C17: with debounceTime = d > 0, each set(v) restarts a timer of length d
\* and applies nothing immediately; when the timer elapses exactly one SET
\* is applied, carrying the most recent value passed to set, so a burst of
\* set calls changes present once: the commit that follows a set call
\* carries the value of that call and leaves nothing pending.
C17_DebounceBurst ==
    [][/\ DebouncedSetStep => SchedulesOnly
       /\ (Step("timer") /\ last.op = "set") =>
              (last'.arg = last.arg /\ timers' = <<>>)]_vars

\* C17 for a burst made through the set function of one render (one
\* debounce instance has a pending call): the same statement holds.
C17_DebounceBurstOneInstance ==
    [][/\ DebouncedSetStep => SchedulesOnly
       /\ (Step("timer") /\ last.op = "set" /\ Len(timers) = 1) =>
              (last'.arg = last.arg /\ timers' = <<>>)]_vars

\* The SET transition carrying v is applied in this step.
AppliedSET(v) ==
    /\ state' = reduceSET(state, v, options.immutable, options.maxCapacity).state
    /\ ~PolicyEqual(v, state.present) =>
          /\ state'.present = Stored(v)
          /\ last'.onChange = <<[action |-> "SET", state |-> Stored(v)]>>

\* C18: setDirect(v) applies SET(v) immediately under every configured
\* scheduling policy, without waiting for, cancelling or flushing any
\* pending deferred commit.
C18_SetDirect ==
    [][\A v \in Val :
          (Step("setDirect") /\ last'.arg = <<v>>) =>
              (AppliedSET(v) /\ timers' = timers)]_vars

\* On a store with debounceTime, setDirect has committed a value while the
\* commit of another value is still pending.
C18_Witness ==
    /\ options.debounceTime # 0
    /\ last.op = "setDirect"
    /\ last.onChange # <<>>
    /\ timers # <<>>
    /\ cloneDeep(timers[1].args) # state.present
    /\ state.present = cloneDeep(last.arg[1])

\* past after present has been pushed onto it.
Pushed(past, present) ==
    IF Capped
    THEN LastK(Append(past, present), options.maxCapacity)
    ELSE Append(past, present)

\* The deferred commit of v is applied as a SET against the present of the
\* moment: v becomes present, that present is pushed to past, future is
\* cleared.
CommitsAgainstCurrent(v) ==
    /\ state'.present = Stored(v)
    /\ state'.past = Pushed(state.past, state.present)
    /\ state'.future = <<>>

\* This step is the deferred commit of v on a mounted, unpaused store whose
\* present is not equal to v.
DeferredCommit(v) ==
    /\ Step("timer")
    /\ mounted
    /\ last'.arg = <<v>>
    /\ ~state.paused
    /\ ~PolicyEqual(v, state.present)

\* The calls whose transitions can come between set and its commit.
Intervening == {"setDirect", "undo", "redo", "clear"}

\* C19: a deferred (debounced) commit that fires after intervening
\* setDirect, undo, redo or clear transitions is applied as an ordinary SET
\* against the present current at fire time: the pending value becomes
\* present, the then-current present is pushed to past, and future is
\* cleared.
C19_DeferredCommit ==
    [][\A v \in Val :
          (DeferredCommit(v) /\ last.op \in Intervening) => CommitsAgainstCurrent(v)]_vars

\* C19 when the present at fire time is not null, whatever was called since
\* set: the same statement holds.
C19_DeferredCommitNonNull ==
    [][\A v \in Val :
          (DeferredCommit(v) /\ state.present # Null) => CommitsAgainstCurrent(v)]_vars

\* On a store created with {x:1}: a set is pending, setDirect({x:2}), the
\* timer fires; the pending value is present and past is [{x:1}, {x:2}].
C19_NonNullWitness ==
    /\ initialStateRef = Obj(1)
    /\ last.op = "timer"
    /\ last.sizes = <<1, 0>>
    /\ state.present = Stored(last.arg[1])
    /\ state.past = <<cloneDeep(Obj(1)), cloneDeep(Obj(3))>>
    /\ state.future = <<>>

\* C20: after teardown (unmount) of the owning instance, no deferred commit
\* that was pending at teardown ever fires, whichever render's set function
\* scheduled it.
C20_NoCommitAfterTeardown == [][~mounted => ~Step("timer")]_vars

\* C20 for the calls scheduled through the set function of the second and
\* later renders: the cleanup cancels the instance of the mount effect, so
\* none of them is pending after teardown.
C20_MountEffectInstanceCancelled ==
    ~mounted => \A i \in 1..Len(timers) : timers[i].fn # MountEffectFn

\* A store with debounceTime and history was unmounted after its second
\* render, and no call is pending.
C20_CancelledWitness ==
    /\ ~mounted
    /\ last.op = "unmount"
    /\ view.setDebounced = MountEffectFn
    /\ timers = <<>>
    /\ options.debounceTime # 0
    /\ state.past # <<>>

\* What the wrapped function does after teardown: it dispatches to a
\* component that is gone, so the state stays as it was and onChange is not
\* called.
C20_DispatchDiscarded ==
    [][~mounted => (state' = state /\ last'.onChange = <<>>)]_vars

(***************************************************************************)
(* useDebounceFn and useThrottleFn.                                        *)
(***************************************************************************)
\* The window of instance i is open: its timer is pending and not due yet.
WindowOpen(i) == lodash[i].timerId # Undefined /\ lodash[i].timerId > now

\* Nothing is going on in instance i: no timer, and no call for a delay.
Idle(i) ==
    /\ lodash[i].timerId = Undefined
    /\ lodash[i].lastCallTime = Undefined \/ now - lodash[i].lastCallTime >= Delay

\* C21: throttled policy: the wrapped action runs at most once per throttle
\* window: the first call in an idle period runs it immediately and opens
\* the window, and a call of the throttled function made while the window
\* is open is deferred to the close of the window.
C21_ThrottleWindow ==
    [][\A i \in Debounced, args \in Args :
          (/\ policy = "throttle"
           /\ \E j \in held : WindowOpen(j)
           /\ Invoke(i, args)) => ran'.calls = <<>>]_vars

\* C21, first call: a call of an idle instance runs the action at once,
\* with the arguments of the call.
C21_FirstCallRunsAtOnce ==
    [][\A i \in Debounced, args \in Args :
          (policy = "throttle" /\ Idle(i) /\ Invoke(i, args))
              => ran'.calls = <<[fn |-> fnRef, args |-> args]>>]_vars

\* C21, trailing edge: when a timer of an instance runs the action, it runs
\* it once, with the arguments of the last call made on the instance.
C21_TrailingArguments ==
    [][\A t \in BagToSet(hostTimers) :
          (policy = "throttle" /\ Timeout(t) /\ ran'.calls # <<>>)
              => ran'.calls = <<[fn |-> fnRef, args |-> lodash[t.inst].lastArgs[1]]>>]_vars

(***************************************************************************)
(* Error handling of the history store.                                    *)
(***************************************************************************)
\* The configuration is one the contract calls invalid: maxCapacity <= 0,
\* or debounceTime together with throttleTime.
InvalidConfiguration ==
    \/ ~isNil(options.maxCapacity) /\ options.maxCapacity <= 0
    \/ options.debounceTime # 0 /\ options.throttleTime # 0

\* C22: creating a store with an invalid configuration (both debounceTime
\* and throttleTime set, or maxCapacity <= 0) fails at construction time:
\* no store with such a configuration is ever in use.
C22_InvalidConfigurationFails == InvalidConfiguration => ~mounted

\* What the code does with maxCapacity: 0: the store works and keeps
\* history without a limit (a state the store reaches).
C22_ZeroCapacityInUse ==
    /\ options.maxCapacity = 0
    /\ mounted
    /\ size(state.past) = MaxHist

\* C23: if the structural equality check throws during a SET (a cyclic
\* value), the error propagates and no partial change is committed: past,
\* present, future and paused are exactly as before the failed set, and
\* onChange is not invoked.
C23_EqualityCheckThrows ==
    [][(mounted /\ ~options.immutable /\ SetStep(Cyclic)) =>
           /\ last'.error = <<TypeError>>
           /\ state' = state
           /\ last'.onChange = <<>>]_vars

\* A store with history was given the cyclic value: the set failed.
C23_Witness ==
    /\ last.op \in {"set", "setDirect", "timer"}
    /\ last.arg = <<Cyclic>>
    /\ last.error = <<TypeError>>
    /\ ~options.immutable
    /\ state.past # <<>>
    /\ state.present = cloneDeep(Obj(3))

\* In immutable mode nothing is serialized: the cyclic value is set like
\* any other.
C23_ImmutableModeSetsCyclic ==
    [][(mounted /\ options.immutable /\ ~onChangeThrows /\ SetStep(Cyclic)) =>
           /\ last'.error = <<>>
           /\ state'.present = Cyclic]_vars

\* This step called an onChange that throws.
ThrowingOnChangeCalled ==
    /\ mounted
    /\ onChangeThrows
    /\ ~RenderStep
    /\ last'.op \in {"set", "setDirect", "timer", "undo", "redo", "clear"}
    /\ last'.onChange # <<>>

\* C24: if the onChange callback throws during an UNDO, REDO, SET or
\* CLEAR, the error is caught and does not propagate through
\* set/undo/redo/clear, and the transition is still committed: the store's
\* present is the one onChange was called with.
C24_OnChangeErrorIsolated ==
    [][ThrowingOnChangeCalled =>
           /\ last'.error = <<>>
           /\ state'.present = last'.onChange[1].state]_vars

\* What the code does instead: the error of onChange leaves the reducer,
\* and the state the reducer had built is dropped.
C24_OnChangeErrorPropagates ==
    [][ThrowingOnChangeCalled =>
           /\ last'.error = <<"onChange">>
           /\ state' = state
           /\ ~mounted']_vars

\* An invocation is pending on instance i.
Pending(i) == lodash[i].lastArgs # <<>>

\* This step is a timer or a flush of instance i that called fn.
DeferredRun(i) ==
    /\ \/ \E t \in BagToSet(hostTimers) : t.inst = i /\ Timeout(t)
       \/ Flush(i)
    /\ ran'.calls # <<>>

\* In this step an invocation becomes pending on instance i only through a
\* call of it, and a timer or a flush of it executes nothing but the
\* invocation that is pending, once.
RunsOnlyPending(i) ==
    /\ (~Pending(i) /\ Pending(i)') => \E args \in Args : Invoke(i, args)
    /\ DeferredRun(i) =>
          /\ Pending(i)
          /\ ~Pending(i)'
          /\ ran'.calls = <<[fn |-> fnRef, args |-> lodash[i].lastArgs[1]]>>

C25_CancelAcrossRenders ==
    [][\A i \in Debounced : Cancel(i) => \A j \in held : ~Pending(j)']_vars

C26_StaleTimerWitness ==
    /\ ran.op = "timeout"
    /\ ran.calls = <<>>
    /\ Pending(ran.inst)
    /\ policy = "debounce"
    /\ held = {FirstRenderFn}
    /\ BagCardinality(hostTimers) = 2

\* This step is a timer of instance i that called fn.
TimerRun(i) ==
    /\ \E t \in BagToSet(hostTimers) : t.inst = i /\ Timeout(t)
    /\ ran'.calls # <<>>

\* C27: when a deferred (debounced or throttled trailing) invocation fires,
\* it calls the function most recently passed to the hook as of the last
\* committed render, with the arguments of the deferred call; a function
\* that has since been replaced is not called.
C27_LatestFunction ==
    [][\A i \in Debounced :
          TimerRun(i) => ran'.calls = <<[fn |-> fn, args |-> lodash[i].lastArgs[1]]>>]_vars

\* C27 for a timer that fires when the passive effects of the last commit
\* have run: the function of that render is called.
C27_LatestFunctionAfterEffects ==
    [][\A i \in Debounced :
          (TimerRun(i) /\ fnRef = fn)
              => ran'.calls = <<[fn |-> fn, args |-> lodash[i].lastArgs[1]]>>]_vars

\* The call was scheduled under fn1, fn2 replaced it, and the timer called
\* fn2.
C27_ReplacedWitness ==
    /\ ran.op = "timeout"
    /\ ran.calls # <<>>
    /\ ran.calls[1].fn = 2
    /\ fn = 2
    /\ now = Delay

(***************************************************************************)
(* Resume.                                                                 *)
(***************************************************************************)
\* This step is the first set after pause(); set..; resume(), it is
\* applied at once and w is not equal to present.
FirstSetAfterResume(w) ==
    /\ SetStep(w)
    /\ pauseRun.phase = "resumed"
    /\ ~PolicyEqual(w, state.present)

\* The set appends the present of resume time to the past of pause time
\* and makes w present.
TracksFromResume(w) ==
    /\ state'.past = Pushed(pauseRun.past, state.present)
    /\ state'.present = Stored(w)
    /\ state'.future = <<>>
    /\ pauseRun.b # <<>> => state.present = Stored(pauseRun.b[1])

\* C28: after resume(), history tracking restarts from the value present at
\* resume time: the next non-no-op set(w) appends that present (the last
\* value set while paused) to past, and values that were present only
\* before that last paused set are not added.
C28_ResumeTracking ==
    [][\A w \in Val : FirstSetAfterResume(w) => TracksFromResume(w)]_vars

\* C28 when the value present at resume time is not null: the same
\* statement holds.
C28_ResumeTrackingNonNull ==
    [][\A w \in Val :
          (FirstSetAfterResume(w) /\ state.present # Null) => TracksFromResume(w)]_vars

\* From {x:1}: set({x:2}); pause(); set({x:1}); resume(); set({x:2}) gives
\* past = [{x:1}, {x:1}] and present = {x:2}.
C28_NonNullWitness ==
    /\ initialStateRef = Obj(1)
    /\ ~options.immutable
    /\ last.op \in {"set", "setDirect"}
    /\ last.sizes = <<1, 0>>
    /\ state.past = <<cloneDeep(Obj(1)), cloneDeep(Obj(1))>>
    /\ state.present = cloneDeep(Obj(3))
    /\ state.future = <<>>

\* The step is a call of setState on the store.
SetStateStep == notified'.op = "setState"

\* The value the call of the step asked for: the value given, or the updater
\* applied to the state before the call.
Requested == NextState(notified'.arg[1])

\* The requested value has the JSON text of the state before the call.
JSONEqualStep == JSONstringify(globalState.state) = JSONstringify(Requested)

\* One call per subscriber, in subscription order, each with value v.
OncePerSubscriber(v) ==
    [i \in 1..Len(subscribers) |-> [callback |-> subscribers[i], state |-> v]]

\* C29: a setState (with a value, or with an updater applied to the current
\* state) whose result is JSON-equal to the current state changes nothing
\* and notifies nobody; any other setState makes the result the state and
\* calls every subscribed callback exactly once with it, in subscription
\* order; and no call on the store calls a callback that is not subscribed:
\* once its unsubscribe function has run, a callback is out of the set.
C29_SetState ==
    [][/\ (SetStateStep /\ JSONEqualStep) =>
              /\ globalState' = globalState
              /\ subscribers' = subscribers
              /\ notified'.calls = <<>>
       /\ (SetStateStep /\ ~JSONEqualStep) =>
              /\ globalState'.state = Requested
              /\ notified'.calls = OncePerSubscriber(Requested)
       /\ \A i \in DOMAIN notified'.calls :
              notified'.calls[i].callback \in Range(subscribers)
       /\ notified'.op = "unsubscribe" =>
              notified'.arg[1] \notin Range(subscribers')]_vars

\* cb2 subscribed before cb1, and a setState has called cb2 and then cb1 with
\* the new state, which came from an updater.
C29_Witness ==
    /\ notified.op = "setState"
    /\ notified.arg[1].typeof = "function"
    /\ subscribers = <<2, 1>>
    /\ notified.calls = <<[callback |-> 2, state |-> globalState.state],
                          [callback |-> 1, state |-> globalState.state]>>

\* A setState with another object of the same JSON text was ignored while
\* callbacks were subscribed.
C29_IgnoredWitness ==
    /\ notified.op = "setState"
    /\ notified.arg[1].typeof = "object"
    /\ ~StrictEquals(notified.next[1], globalState.state)
    /\ subscribers # <<>>
    /\ notified.calls = <<>>

\* C30: when a subscriber throws during the notification of a setState, the
\* error is caught and logged, every other subscribed callback is still
\* called with the new state, the state of the store is the new value, and
\* setState does not throw.
C30_SubscriberErrorIsolated ==
    [][(/\ SetStateStep
        /\ ~JSONEqualStep
        /\ Range(subscribers) \cap Throwing # {}) =>
           /\ Range(notified'.logged) = Range(subscribers) \cap Throwing
           /\ notified'.thrown = <<>>
           /\ \A callback \in Range(subscribers) \ Throwing :
                  [callback |-> callback, state |-> Requested] \in Range(notified'.calls)
           /\ globalState'.state = Requested]_vars

\* The throwing callback was subscribed first; a setState called it, logged
\* its error and then called the two callbacks behind it.
C30_Witness ==
    /\ notified.op = "setState"
    /\ Len(notified.calls) = 3
    /\ notified.calls[1].callback \in Throwing
    /\ notified.logged = <<notified.calls[1].callback>>
    /\ notified.calls[3].state = globalState.state

\* Component c shows the state of the store.
InSync(c) == JSONstringify(components[c].state) = JSONstringify(globalState.state)

\* C31: every mounted component that uses useGlobalState on a store has the
\* state store.getState() returns once notifications have been delivered,
\* whoever made the update and whether the component mounted before or
\* after earlier updates of the store.
C31_Synchronized ==
    \A c \in DOMAIN components : components[c].mounted => InSync(c)

\* A component whose callback has been called since it mounted shows the
\* state of the store.
C31_SynchronizedOnceNotified ==
    \A c \in DOMAIN components : components[c].notified => InSync(c)

\* Two components were notified by one setState and show the new state.
C31_NotifiedWitness ==
    /\ notified.op = "setState"
    /\ Len(notified.calls) = 2
    /\ \A c \in Components : components[c].notified /\ InSync(c)
    /\ JSONstringify(globalState.state) # JSONstringify(globalValue)

\* A component mounted and subscribed after an update of the store and still
\* shows the value the store was created with.
C31_LateMount ==
    \E c \in DOMAIN components :
        /\ components[c].subscribed
        /\ ~components[c].notified
        /\ ~InSync(c)

\* The step is a timer of useTemporaryState that sets the state to another
\* value.
ResetStep == temporary'.op = "reset"

\* The effect of the last commit has run and the only timer pending is the
\* one the last change of the state, of initialState or of timeout started.
TimerRestarted ==
    ~temporary.effect =>
        \A t \in BagToSet(hostTimers) :
            /\ hostTimers = SetToBag({t})
            /\ t = [at |-> temporary.restartedAt + temporary.timeout,
                    initialState |-> temporary.initialState]

\* A reset gives the state the latest initialState, not before timeout ticks
\* have passed since the caller last changed the state.
ResetInTime ==
    /\ temporary'.state = temporary.initialState
    /\ now >= temporary.setAt + temporary.timeout

\* The clock moves past a moment at which nothing has changed for timeout
\* ticks only with the state reset.
ResetByDeadline ==
    (now' = now + 1 /\ now >= temporary.restartedAt + temporary.timeout) =>
        temporary.state = temporary.initialState

\* C32: every change of the state restarts the timeout and cancels the timer
\* before it; when nothing changes for timeout ticks the state becomes the
\* latest initialState passed; and a timer started before a later change
\* never resets the state early.
C32_TemporaryState ==
    [][/\ TimerRestarted'
       /\ ResetByDeadline
       /\ ResetStep => ResetInTime]_vars

\* The same, for the timers that run while no passive effect is pending.
C32_TemporaryStateEffectsFlushed ==
    [][/\ TimerRestarted'
       /\ ResetByDeadline
       /\ (ResetStep /\ ~temporary.effect) => ResetInTime]_vars

\* The state was changed twice, the second time a tick after the first, and
\* the timer of the second change has reset it to an initialState passed in
\* between.
C32_RestartWitness ==
    /\ temporary.op = "reset"
    /\ temporary.setAt = 1
    /\ now = temporary.setAt + temporary.timeout
    /\ temporary.state = temporary.initialState
    /\ temporary.initialState = 1
    /\ temporary.timeout = 2

\* A timer that was due when the caller changed the state has reset it
\* before the effect of that change could cancel the timer.
C32_EarlyReset ==
    /\ temporary.op = "reset"
    /\ now < temporary.setAt + temporary.timeout

\* C33: every call of undo() made while past is non-empty applies an UNDO
\* transition and every call of redo() made while future is non-empty
\* applies a REDO transition, also when the entry comes from a set,
\* setDirect, undo or redo made since the last render: no such call is
\* dropped.
C33_NoCallDropped ==
    [][/\ Step("undoSkipped") => state.past = <<>>
       /\ Step("redoSkipped") => state.future = <<>>]_vars

\* Between a render and the next update no call is dropped while there is
\* an entry for it.
C33_NoCallDroppedAfterRender ==
    [][~needsRender =>
          /\ Step("undoSkipped") => state.past = <<>>
          /\ Step("redoSkipped") => state.future = <<>>]_vars

\* redo() was dropped although future held the entry an undo() had put there
\* since the last render.
C33_DroppedRedo ==
    /\ last.op = "redoSkipped"
    /\ last.sizes[2] > 0
    /\ needsRender

\* undo() after the render: the call found the entry a set had made and
\* applied UNDO.
C33_AppliedWitness ==
    /\ last.op = "undo"
    /\ last.onChange # <<>>
    /\ last.sizes[1] = 1

\* The SET of this step carried v, was applied unpaused and was not a no-op.
TrackedSet(v) == SetStep(v) /\ ~state.paused /\ ~PolicyEqual(v, state.present)

\* The step has pushed the present it found onto past.
PushedPresent ==
    /\ state'.past # <<>>
    /\ state'.past[Len(state'.past)] = state.present
    /\ canUndo'

\* C34: a SET that is not a no-op, applied while not paused, pushes the
\* previous present onto past whatever value it is, null included (given as
\* the initial value or set later): afterwards the last entry of past is the
\* previous present and canUndo is true.
C34_SetPushesPresent ==
    [][\A v \in Val : TrackedSet(v) => PushedPresent]_vars

\* The same for a previous present that is not null.
C34_SetPushesNonNullPresent ==
    [][\A v \in Val : (TrackedSet(v) /\ state.present # Null) => PushedPresent]_vars

\* A SET replaced a present of null that an earlier set had put there, and
\* past is still empty.
C34_NullLost ==
    /\ last.op \in {"set", "setDirect"}
    /\ last.onChange # <<>>
    /\ ~state.paused
    /\ state.past = <<>>
    /\ initialStateRef # Null

\* A SET on a full past pushed an object and evicted the oldest entry.
C34_NonNullWitness ==
    /\ last.op \in {"set", "setDirect"}
    /\ last.onChange # <<>>
    /\ ~state.paused
    /\ Capped
    /\ last.sizes[1] = options.maxCapacity
    /\ Len(state.past) = options.maxCapacity
    /\ state.past[Len(state.past)] # Null

\* C35: with maxCapacity = k > 0 fixed for the lifetime of the instance,
\* past and future together never hold more than k entries, so that REDO,
\* which appends to past without evicting, cannot push past beyond k.
C35_HistoryWithinCapacity ==
    Capped => Len(state.past) + Len(state.future) <= options.maxCapacity

\* A REDO has filled past to its capacity from a store whose past and
\* future together held as many entries as the capacity allows.
C35_Witness ==
    /\ last.op = "redo"
    /\ last.onChange # <<>>
    /\ Capped
    /\ options.maxCapacity > 1
    /\ last.sizes[1] + last.sizes[2] = options.maxCapacity
    /\ Len(state.past) = options.maxCapacity

\* The values undo and redo walk through, oldest first.
Timeline(st) == st.past \o <<st.present>> \o st.future

\* No two neighbours of the timeline are equal under the equality policy.
NoEqualNeighbours(st) ==
    \A i \in 1..(Len(Timeline(st)) - 1) :
        ~PolicyEqual(Timeline(st)[i], Timeline(st)[i + 1])

\* C36: on an instance that has never been paused, no two adjacent values of
\* past ++ [present] ++ future are equal under the active equality policy in
\* any reachable state, so that undo and redo always change present.
C36_NoEqualNeighbours == NoEqualNeighbours(state)

\* The step applies a SET to a store whose present is null.
NullReplaced == state.present = Null /\ \E v \in Val : SetStep(v)

\* Every step other than a SET on a present of null keeps the timeline free
\* of equal neighbours.
C36_KeptUnlessNullReplaced ==
    [][(NoEqualNeighbours(state) /\ ~NullReplaced) => NoEqualNeighbours(state')]_vars

\* An undo() in the middle of a timeline of three distinct values.
C36_DistinctWitness ==
    /\ last.op = "undo"
    /\ Len(state.past) = 1
    /\ Len(state.future) = 1
    /\ NoEqualNeighbours(state)
    /\ state.present # Null

\* The entries of past and future of st, each as often as it occurs.
Entries37(st) ==
    LET s == st.past \o st.future
    IN [v \in {s[i] : i \in DOMAIN s} |-> Cardinality({i \in DOMAIN s : s[i] = v})]

\* The store stays paused over the step, and the present it is taken on was
\* committed by a paused SET: the last call or timer applied a SET, and no
\* pause() came after it.
PausedValuePresent == state.paused /\ state'.paused /\ LastSetFired

\* C37 as stated: while paused stays true, no value committed by a paused SET
\* becomes an entry of past or future, whatever set, setDirect, undo, redo
\* and clear are interleaved during the pause: a step taken on such a
\* present adds no entry.
C37_PausedValuesNeverEnter ==
    [][PausedValuePresent => Entries37(state') \sqsubseteq Entries37(state)]_vars

\* C37, amended: while paused stays true, a SET leaves past and future
\* exactly as they are; a value committed by a paused SET becomes an entry
\* only as the present of an UNDO or REDO applied during the pause, which
\* puts it at the front of future or at the end of past.
C37_PausedSetsLeaveHistory ==
    [][(state.paused /\ state'.paused) =>
          /\ \A v \in Val :
                 SetStep(v) => (state'.past = state.past /\ state'.future = state.future)
          /\ (LastSetFired /\ ~(Entries37(state') \sqsubseteq Entries37(state))) =>
                 \/ /\ Step("undo")
                    /\ state'.future = <<state.present>> \o state.future
                    /\ state'.past = Front(state.past)
                 \/ /\ Step("redo")
                    /\ state'.past = Append(state.past, state.present)
                    /\ state'.future = Tail(state.future)]_vars

\* A paused SET was applied to a store with entries on both sides, and both
\* are still there.
C37_Witness ==
    /\ state.paused
    /\ LastSetFired
    /\ state.past # <<>>
    /\ state.future # <<>>

\* undo() during the pause has put a value into future that is in no entry
\* made before: it was committed by a paused SET.
C37_UndoneIntoFuture ==
    /\ state.paused
    /\ last.op = "undo"
    /\ last.onChange # <<>>
    /\ last.sizes = <<1, 0>>
    /\ ~options.immutable
    /\ initialStateRef = Obj(1)
    /\ state.present = cloneDeep(Null)
    /\ state.future = <<cloneDeep(Obj(3))>>

\* The deferred invocations pending on the debounced function d.
PendingOn(d) == {i \in DOMAIN timers : timers[i].fn = d}

\* C38: on one mounted hook whose delay and options never change, at most
\* one deferred invocation is pending at any time, whichever renders the
\* set functions that were called come from (the debounced function of the
\* first render or the one the mount effect installed).
C38_OnePending == mounted => Len(timers) <= 1

\* C38, for each debounced function on its own: a call restarts the pending
\* invocation of the function it is made on, so each has at most one.
C38_OnePendingPerInstance ==
    \A d \in Debounced : Cardinality(PendingOn(d)) <= 1

\* Two invocations are pending on the mounted hook, one on each function.
C38_TwoPending ==
    /\ mounted
    /\ Len(timers) = 2
    /\ timers[1].fn = FirstRenderFn
    /\ timers[2].fn = MountEffectFn
    /\ timers[1].args # timers[2].args

\* This step calls fn: a call on the leading edge, or a timer.
AppliedStep ==
    /\ ran'.calls # <<>>
    /\ <<lodash, hostTimers, ran>>' # <<lodash, hostTimers, ran>>

\* The time of the call whose arguments this step applies.
CalledAt == IF ran'.op = "call" THEN now ELSE lodash[ran'.inst].lastCallTime

\* The invocations left pending by this step belong to calls that are not
\* older than the call whose arguments it applies.
NothingOlderPending ==
    \A j \in Debounced : Pending(j)' => lodash'[j].lastCallTime >= CalledAt

\* C39: on a mounted hook whose caller never cancels, once the value of the
\* last call (debounced or throttled) is applied no deferred invocation
\* remains pending: whenever fn is called with the arguments of a call, no
\* invocation of an older call is left to run after it.
C39_Quiescence == [][AppliedStep => NothingOlderPending]_vars

\* C39, for the calls made before any re-render, all on the function of the
\* first render.
C39_QuiescenceFirstRender ==
    [][(AppliedStep /\ held = {FirstRenderFn}) => NothingOlderPending]_vars

\* C39, debounced: a trailing invocation never leaves an older call pending.
C39_QuiescenceDebounced ==
    [][(AppliedStep /\ policy = "debounce") => NothingOlderPending]_vars

\* C39, the eventual part: under the fairness of FairQuiescence every
\* pending invocation is eventually made, and in the end no timer and no
\* invocation is pending.
C39_EventuallyQuiet ==
    /\ \A i \in Debounced : Pending(i) ~> ~Pending(i)
    /\ <>[](hostTimers = EmptyBag /\ \A i \in Debounced : ~Pending(i))

\* A throttled call ran fn at once through the function of the mount effect
\* while an older call is still pending on the function of the first render.
C39_StalePending ==
    /\ policy = "throttle"
    /\ ran.op = "call"
    /\ ran.inst = MountEffectFn
    /\ ran.calls # <<>>
    /\ Pending(FirstRenderFn)
    /\ lodash[FirstRenderFn].lastCallTime < now
    /\ lodash[FirstRenderFn].lastArgs # ran.args

====
